---- MODULE Spec2Model ----
(***************************************************************************)
(* Outbound-call campaign: lead intake, work queue (hopper), initial       *)
(* dialer, cadence engine (scheduler loop), contact state store (Twilio    *)
(* Sync documents + active list) and the call-outcome webhook              *)
(* (reconciler).  The repository carries two generations of the cadence    *)
(* policy and of the webhook; `variant` selects which pair is deployed:    *)
(*   "flat"    : flat rules (maxAttempts / attempts[]) + the flat webhook  *)
(*   "segment" : segment rules (callCountMin/Max) + the hopper-aware       *)
(*               webhook                                                   *)
(* Time is counted in seconds.                                             *)
(***************************************************************************)
EXTENDS Integers, Sequences, FiniteSets, TLC

\* ------------------------------------------------------------------ bounds
MaxTicks == 1
MaxCalls == 2
MaxDeliveries == 2
MaxIngests == 2
MaxIndexLen == 3
\* largest attemptCount of a stored record in the decision-step model
MaxPriorAttempts == 4
\* the clock, in seconds, at which the decision-step model runs
DecideClock == 7
\* nominal maximum attempts of the defective policies tried on the decision step
NominalMax == 3
\* items per page of the Sync list in the model (100 in the code)
PageSize == 2

\* --------------------------------------------------------- JS `undefined`
NoNum == -1
NoStr == ""
NoTok == <<>>

Phones == {"p1", "p2"}
Dialers == {"d1", "d2"}
Scheds == {"s1", "s2"}
Priorities == {NoNum, 10}

\* Outcome categories delivered in the system models: a retryable one, the
\* terminal success and one with no entry in either rule table.
EventDispositions == {"NO_ANSWER", "APPOINTMENT_SCHEDULED_AI", "CUSTOMER_HUNG_UP"}

\* Outcome categories of the initial calls in the work-queue model.
InitialDispositions == {"NO_ANSWER", "APPOINTMENT_SCHEDULED_AI"}

\* ------------------------------------------------------------ rule tables
Delay(d, h, m, s) == [days |-> d, hours |-> h, minutes |-> m, seconds |-> s]

minutesDelay(m) == Delay(0, 0, m, 0)

Seg(lo, hi, d) ==
  [callCountMin |-> lo, callCountMax |-> hi, delay |-> d, hopperPriorityOverride |-> NoNum]

\* A rule of the segment table; maxAttempts / attempts do not exist in this shape.
SegRule(segs, prio, final) ==
  [segments |-> segs, defaultHopperPriority |-> prio, finalStatusOnExhaustion |-> final,
   maxAttempts |-> NoNum, attempts |-> <<>>]

\* A rule of the flat table; segments / defaultHopperPriority do not exist in this shape.
FlatRule(max, delaysMinutes, final) ==
  [segments |-> <<>>, defaultHopperPriority |-> NoNum, finalStatusOnExhaustion |-> final,
   maxAttempts |-> max, attempts |-> delaysMinutes]

SegmentRules ==
  [k \in {"NEW_LEAD", "ANSWERING_MACHINE", "NO_ANSWER", "VOICEMAIL_DETECTED", "BUSY",
          "ERROR_CALL_FAILED", "ERROR_INITIATION_FAILED", "APPOINTMENT_SCHEDULED_AI",
          "CALL_COMPLETED_HUMAN_HANDOFF", "DEFAULT"} |->
    CASE k = "NEW_LEAD" ->
           SegRule(<<Seg(0, 0, Delay(0, 0, 0, 0))>>, 100, "COMPLETED_EXHAUSTED")
      [] k = "ANSWERING_MACHINE" ->
           SegRule(<<Seg(1, 1, Delay(0, 0, 22, 4)), Seg(2, 2, Delay(0, 0, 11, 52)),
                     Seg(3, 3, Delay(0, 0, 22, 4)), Seg(4, 4, Delay(0, 0, 11, 52)),
                     Seg(5, 5, Delay(0, 1, 30, 32)), Seg(6, 6, Delay(0, 0, 22, 4)),
                     Seg(7, 7, Delay(0, 1, 30, 32)), Seg(8, 8, Delay(0, 0, 11, 52)),
                     Seg(9, 9, Delay(0, 1, 30, 32)), Seg(10, 10, Delay(0, 0, 22, 4))>>,
                   50, "PAUSED")
      [] k = "NO_ANSWER" ->
           SegRule(<<Seg(1, 1, minutesDelay(20)), Seg(2, 2, minutesDelay(120)),
                     Seg(3, 3, Delay(1, 0, 0, 0))>>, NoNum, "COMPLETED_EXHAUSTED")
      [] k = "VOICEMAIL_DETECTED" ->
           SegRule(<<Seg(1, 1, Delay(2, 0, 0, 0)), Seg(2, 2, Delay(5, 0, 0, 0))>>, 40, "PAUSED")
      [] k = "BUSY" ->
           SegRule(<<Seg(1, 1, minutesDelay(15)), Seg(2, 2, minutesDelay(60))>>,
                   NoNum, "COMPLETED_EXHAUSTED")
      [] k = "ERROR_CALL_FAILED" ->
           SegRule(<<Seg(1, 2, minutesDelay(5)), Seg(3, 3, minutesDelay(30))>>, NoNum, "ERROR")
      [] k = "ERROR_INITIATION_FAILED" ->
           SegRule(<<Seg(1, 3, minutesDelay(10))>>, NoNum, "ERROR")
      [] k = "APPOINTMENT_SCHEDULED_AI" ->
           SegRule(<<Seg(1, 99, minutesDelay(0))>>, NoNum, "COMPLETED_SUCCESS")
      [] k = "CALL_COMPLETED_HUMAN_HANDOFF" ->
           SegRule(<<Seg(1, 99, minutesDelay(0))>>, NoNum, "PAUSED")
      [] OTHER ->
           SegRule(<<Seg(1, 1, minutesDelay(5))>>, NoNum, "COMPLETED_EXHAUSTED")]

FlatRules ==
  [k \in {"NEW_LEAD", "NO_ANSWER", "VOICEMAIL_DETECTED", "BUSY", "ERROR_CALL_FAILED",
          "APPOINTMENT_SCHEDULED_AI", "CALL_COMPLETED_HUMAN_HANDOFF", "DEFAULT"} |->
    CASE k = "NEW_LEAD" ->
           FlatRule(5, <<0, 60, 24 * 60, 48 * 60, 72 * 60>>, "COMPLETED_EXHAUSTED")
      [] k = "NO_ANSWER" -> FlatRule(3, <<20, 120, 24 * 60>>, "COMPLETED_EXHAUSTED")
      [] k = "VOICEMAIL_DETECTED" -> FlatRule(2, <<2 * 24 * 60, 5 * 24 * 60>>, "PAUSED")
      [] k = "BUSY" -> FlatRule(2, <<15, 60>>, "COMPLETED_EXHAUSTED")
      [] k = "ERROR_CALL_FAILED" -> FlatRule(2, <<5, 30>>, "ERROR")
      [] k = "APPOINTMENT_SCHEDULED_AI" -> FlatRule(1, <<0>>, "COMPLETED_SUCCESS")
      [] k = "CALL_COMPLETED_HUMAN_HANDOFF" -> FlatRule(1, <<0>>, "PAUSED")
      [] OTHER -> FlatRule(1, <<5>>, "COMPLETED_EXHAUSTED")]

getCadenceRules(v) == IF v = "flat" THEN FlatRules ELSE SegmentRules

\* rules[key] || rules.DEFAULT
RuleFor(rules, key) == IF key \in DOMAIN rules THEN rules[key] ELSE rules["DEFAULT"]

\* Faulty variant of handoffDispositions: CALL_TRANSFERRED is not in the list.
handoffCompletedOnly == {"CALL_COMPLETED_HUMAN_HANDOFF"}

\* RETELL_HANDOFF_DISPOSITIONS default
handoffDispositions == {"CALL_COMPLETED_HUMAN_HANDOFF", "CALL_TRANSFERRED"}

\* Faulty variant of AddDelay: no next call time is computed.
NoNextCallTime(t, d) == NoNum

\* setDate / setHours / setMinutes / setSeconds on the current instant
AddDelay(t, d) == t + d.days * 86400 + d.hours * 3600 + d.minutes * 60 + d.seconds

\* Faulty variant of FindSegment: a count beyond every segment gets the last one.
FindSegmentOrLast(segs, n) ==
  LET hits == {i \in 1..Len(segs) : n >= segs[i].callCountMin /\ n <= segs[i].callCountMax}
  IN IF hits = {} THEN Len(segs) ELSE CHOOSE i \in hits : \A j \in hits : i <= j

\* segments.find(s => n >= s.callCountMin && n <= s.callCountMax): index of the
\* first matching segment, 0 when none matches
FindSegment(segs, n) ==
  LET hits == {i \in 1..Len(segs) : n >= segs[i].callCountMin /\ n <= segs[i].callCountMax}
  IN IF hits = {} THEN 0 ELSE CHOOSE i \in hits : \A j \in hits : i <= j

\* -------------------------------------------------- contact cadence state
BlankState(phone) ==
  [phoneNumber |-> phone, leadId |-> NoNum, lastCallSid |-> NoTok,
   lastCallDisposition |-> NoStr, lastAttemptTimestamp |-> NoNum,
   nextCallTimestamp |-> NoNum, attemptCount |-> NoNum, status |-> NoStr,
   currentCallSid |-> NoTok, hopperPriority |-> NoNum]

\* (x || 0) on a possibly missing count
OrZero(n) == IF n = NoNum THEN 0 ELSE n

\* a ?? b
Coalesce(a, b) == IF a = NoNum THEN b ELSE a

\* a >= b where either side may be undefined (the comparison is then false)
JsGe(a, b) == a # NoNum /\ b # NoNum /\ a >= b

\* ------------------------------------------------------- tracking tokens
\* `initial_H${hopper_id}_L${lead_id}_${Date.now()}`
InitialToken(h, l, t) == <<"initial", h, l, t>>

\* `TEMP_${Date.now()}_${phoneNumber}`
TempToken(t, phone) == <<"TEMP", t, phone>>

\* twilio_call_sid.startsWith('initial_H')
isInitialCall(tok) == Len(tok) = 4 /\ tok[1] = "initial"

\* ----------------------------------------------------------- decision step
\* The rule application shared by both branches of the segment webhook.
ApplyRules(st, key, rule, t) ==
  IF key = "APPOINTMENT_SCHEDULED_AI" \/ rule.finalStatusOnExhaustion = "COMPLETED_SUCCESS"
  THEN [st EXCEPT !.status = "COMPLETED_SUCCESS", !.nextCallTimestamp = NoNum,
                  !.hopperPriority = NoNum]
  ELSE IF key \in handoffDispositions
  THEN [st EXCEPT !.status = "PAUSED", !.nextCallTimestamp = NoNum]
  ELSE LET m == FindSegment(rule.segments, OrZero(st.attemptCount))
       IN IF m # 0
          THEN [st EXCEPT !.status = "ACTIVE",
                          !.nextCallTimestamp = AddDelay(t, rule.segments[m].delay),
                          !.hopperPriority =
                             IF rule.segments[m].hopperPriorityOverride # NoNum
                             THEN rule.segments[m].hopperPriorityOverride ELSE @]
          ELSE [st EXCEPT !.status = rule.finalStatusOnExhaustion,
                          !.nextCallTimestamp = NoNum, !.hopperPriority = NoNum]

\* contactStateForMainCadence as the queue-origin branch builds it, with the
\* priority initialised from the rule or the lead.
\* lead = [id, phone_number, hopper_priority]; ev = [token, phone, disposition, ended]
BootstrapRecord(lead, ev, rule) ==
  [BlankState(lead.phone_number) EXCEPT
     !.leadId = lead.id, !.attemptCount = 1,
     !.lastCallDisposition = ev.disposition,
     !.lastAttemptTimestamp = ev.ended, !.status = "PENDING",
     !.hopperPriority = Coalesce(rule.defaultHopperPriority, lead.hopper_priority)]

\* Queue-origin branch: bootstrap record for the lead, then the rules.
DecideInitial(lead, ev, t) ==
  LET rule == RuleFor(SegmentRules, ev.disposition)
  IN ApplyRules(BootstrapRecord(lead, ev, rule), ev.disposition, rule, t)

\* Variant of Bump that deduplicates by tracking token: an event whose token
\* is already stored as lastCallSid does not count as a further attempt.
BumpDeduplicated(fetched, ev) ==
  LET base == IF fetched # <<>>
              THEN [fetched[1] EXCEPT
                      !.attemptCount = IF fetched[1].lastCallSid = ev.token THEN @ ELSE OrZero(@) + 1]
              ELSE [BlankState(ev.phone) EXCEPT !.attemptCount = 1, !.status = "PENDING"]
  IN [base EXCEPT !.lastCallSid = ev.token, !.lastCallDisposition = ev.disposition,
                  !.lastAttemptTimestamp = ev.ended, !.currentCallSid = NoTok]

\* Faulty variant of Bump: the fetched attemptCount is carried over unchanged.
BumpWithoutCount(fetched, ev) ==
  LET base == IF fetched # <<>>
              THEN [fetched[1] EXCEPT !.attemptCount = OrZero(@)]
              ELSE [BlankState(ev.phone) EXCEPT !.attemptCount = 1, !.status = "PENDING"]
  IN [base EXCEPT !.lastCallSid = ev.token, !.lastCallDisposition = ev.disposition,
                  !.lastAttemptTimestamp = ev.ended, !.currentCallSid = NoTok]

\* Faulty variant of Bump: currentCallSid is left as fetched.
BumpKeepsToken(fetched, ev) ==
  LET base == IF fetched # <<>>
              THEN [fetched[1] EXCEPT !.attemptCount = OrZero(@) + 1]
              ELSE [BlankState(ev.phone) EXCEPT !.attemptCount = 1, !.status = "PENDING"]
  IN [base EXCEPT !.lastCallSid = ev.token, !.lastCallDisposition = ev.disposition,
                  !.lastAttemptTimestamp = ev.ended]

\* The record both webhooks build from the fetched one (<<>> when absent) and the event.
Bump(fetched, ev) ==
  LET base == IF fetched # <<>>
              THEN [fetched[1] EXCEPT !.attemptCount = OrZero(@) + 1]
              ELSE [BlankState(ev.phone) EXCEPT !.attemptCount = 1, !.status = "PENDING"]
  IN [base EXCEPT !.lastCallSid = ev.token, !.lastCallDisposition = ev.disposition,
                  !.lastAttemptTimestamp = ev.ended, !.currentCallSid = NoTok]

\* contactState of the cadence-origin branch before the status is decided:
\* contactState.hopperPriority ?? currentRule.defaultHopperPriority
CadenceRecord(fetched, ev, rule) ==
  [Bump(fetched, ev) EXCEPT !.hopperPriority = Coalesce(@, rule.defaultHopperPriority)]

\* Cadence-origin branch of the segment webhook.
DecideCadence(fetched, ev, t) ==
  LET rule == RuleFor(SegmentRules, ev.disposition)
  IN ApplyRules(CadenceRecord(fetched, ev, rule), ev.disposition, rule, t)

\* Faulty variant of effectiveRuleKey: the outcome category is always the key.
dispositionKeyOnly(st, fetched, ev) == ev.disposition

\* (contactState.attemptCount === 1 && !fetchedContactState) ? 'NEW_LEAD' : dispositionKey
effectiveRuleKey(st, fetched, ev) ==
  IF st.attemptCount = 1 /\ fetched = <<>> THEN "NEW_LEAD" ELSE ev.disposition

\* Faulty variant of ApplyFlat: running off the delay list leaves the contact
\* ACTIVE without a next call time.
ApplyFlatFailsOpen(st, disposition, rule, t) ==
  LET final == [st EXCEPT !.status = rule.finalStatusOnExhaustion, !.nextCallTimestamp = NoNum]
  IN IF rule.finalStatusOnExhaustion = "COMPLETED_SUCCESS" /\ rule.maxAttempts = 1
     THEN [st EXCEPT !.status = "COMPLETED_SUCCESS", !.nextCallTimestamp = NoNum]
     ELSE IF disposition \in handoffDispositions
     THEN [st EXCEPT !.status = "PAUSED", !.nextCallTimestamp = NoNum]
     ELSE IF st.attemptCount >= rule.maxAttempts
     THEN final
     ELSE IF st.attemptCount < Len(rule.attempts)
     THEN [st EXCEPT !.status = "ACTIVE",
                     !.nextCallTimestamp = t + rule.attempts[st.attemptCount + 1] * 60]
     ELSE [st EXCEPT !.status = "ACTIVE", !.nextCallTimestamp = NoNum]

\* The rule application of the flat webhook.
ApplyFlat(st, disposition, rule, t) ==
  LET final == [st EXCEPT !.status = rule.finalStatusOnExhaustion, !.nextCallTimestamp = NoNum]
  IN IF rule.finalStatusOnExhaustion = "COMPLETED_SUCCESS" /\ rule.maxAttempts = 1
     THEN [st EXCEPT !.status = "COMPLETED_SUCCESS", !.nextCallTimestamp = NoNum]
     ELSE IF disposition \in handoffDispositions
     THEN [st EXCEPT !.status = "PAUSED", !.nextCallTimestamp = NoNum]
     ELSE IF st.attemptCount >= rule.maxAttempts
     THEN final
     ELSE IF st.attemptCount < Len(rule.attempts)
     THEN [st EXCEPT !.status = "ACTIVE",
                     !.nextCallTimestamp = t + rule.attempts[st.attemptCount + 1] * 60]
     ELSE final

\* The flat webhook (flat rule table).
DecideFlat(fetched, ev, t) ==
  LET st == Bump(fetched, ev)
  IN ApplyFlat(st, ev.disposition, RuleFor(FlatRules, effectiveRuleKey(st, fetched, ev)), t)

\* ------------------------------------------------------------------ state
VARIABLES
  intake,    \* per ingest_lead request in flight: position, payload, inserted lead id
  variant,   \* "flat" or "segment": the deployed rule table / webhook pair
  now,       \* wall clock, seconds
  ticks,     \* number of clock advances so far
  leads,     \* leads table: sequence of [phone_number, hopper_priority], id = index
  hopper,    \* hopper table: sequence of rows, id = index
  dialer,    \* per initial-dialer invocation: [pc, row]
  docs,      \* Sync documents: phone -> <<>> (absent) or <<data>>
  index,     \* Sync list active_cadence_contacts: sequence of phone numbers
  sched,     \* per cadence-engine invocation: [pc, due, sid]
  calls      \* calls accepted by the call-placement capability, with their outcome

vars == <<intake, variant, now, ticks, leads, hopper, dialer, docs, index, sched, calls>>

\* ------------------------------------------------------ contact state store
isActive(status) == status \in {"ACTIVE", "PENDING"}

isListedInactive(status) == status \in {"COMPLETED_SUCCESS", "COMPLETED_EXHAUSTED", "ERROR", "PAUSED"}

RemoveAll(seq, x) == SelectSeq(seq, LAMBDA y : y # x)

\* addOrUpdateContact, the list maintenance: one more item for an active
\* status, every item of the phone removed for a listed inactive status,
\* nothing for any other status value (e.g. a record written without status).
IndexAfter(idx, state) ==
  IF isActive(state.status) THEN Append(idx, state.phoneNumber)
  ELSE IF isListedInactive(state.status) THEN RemoveAll(idx, state.phoneNumber)
  ELSE idx

\* Faulty variant of DocsAfter: the fields of `state` that are set are merged
\* into the stored document, the others are kept.
DocsAfterMerged(d, state, res) ==
  LET old == d[state.phoneNumber][1]
      merged == [phoneNumber |-> state.phoneNumber,
                 leadId |-> IF state.leadId = NoNum THEN old.leadId ELSE state.leadId,
                 lastCallSid |-> IF state.lastCallSid = NoTok THEN old.lastCallSid ELSE state.lastCallSid,
                 lastCallDisposition |-> IF state.lastCallDisposition = NoStr
                                         THEN old.lastCallDisposition ELSE state.lastCallDisposition,
                 lastAttemptTimestamp |-> IF state.lastAttemptTimestamp = NoNum
                                          THEN old.lastAttemptTimestamp ELSE state.lastAttemptTimestamp,
                 nextCallTimestamp |-> IF state.nextCallTimestamp = NoNum
                                       THEN old.nextCallTimestamp ELSE state.nextCallTimestamp,
                 attemptCount |-> IF state.attemptCount = NoNum THEN old.attemptCount ELSE state.attemptCount,
                 status |-> IF state.status = NoStr THEN old.status ELSE state.status,
                 currentCallSid |-> IF state.currentCallSid = NoTok
                                    THEN old.currentCallSid ELSE state.currentCallSid,
                 hopperPriority |-> IF state.hopperPriority = NoNum
                                    THEN old.hopperPriority ELSE state.hopperPriority]
  IN IF res \in {"ok", "nolist"}
     THEN [d EXCEPT ![state.phoneNumber] = IF @ = <<>> THEN <<state>> ELSE <<merged>>]
     ELSE d

\* addOrUpdateContact: the document data is replaced by `state`.
\* res: "ok"      document and list written
\*      "nolist"  document written, the list operation failed (logged only)
\*      "nodoc"   document update failed: {success: false}, nothing written
\*      "throw"   the invocation itself failed, nothing written
DocsAfter(d, state, res) ==
  IF res \in {"ok", "nolist"} THEN [d EXCEPT ![state.phoneNumber] = <<state>>] ELSE d

ListAfter(idx, state, res) == IF res = "ok" THEN IndexAfter(idx, state) ELSE idx

WriteResults == {"ok", "nolist", "nodoc", "throw"}

\* getContactState
getContactState(phone) == docs[phone]

\* ------------------------------------------------------------- queryDue
\* Faulty variant of Dedup: every list item is processed.
NoDedup(seq, seen) == seq

RECURSIVE Dedup(_, _)
\* processedPhoneNumbers: the first occurrence of each phone number, in list order
Dedup(seq, seen) ==
  IF seq = <<>> THEN <<>>
  ELSE IF Head(seq) \in seen THEN Dedup(Tail(seq), seen)
  ELSE <<Head(seq)>> \o Dedup(Tail(seq), seen \cup {Head(seq)})

\* a - b < 0 where a missing value counts as Number.MAX_SAFE_INTEGER
LessOrMissing(a, b) == a # NoNum /\ (b = NoNum \/ a < b)

\* the sort comparator: hopperPriority ascending, then nextCallTimestamp ascending
SortsBefore(a, b) ==
  \/ LessOrMissing(a.hopperPriority, b.hopperPriority)
  \/ /\ a.hopperPriority = b.hopperPriority
     /\ LessOrMissing(a.nextCallTimestamp, b.nextCallTimestamp)

RECURSIVE InsertSorted(_, _)
InsertSorted(sorted, x) ==
  IF sorted = <<>> THEN <<x>>
  ELSE IF SortsBefore(x, Head(sorted)) THEN <<x>> \o sorted
  ELSE <<Head(sorted)>> \o InsertSorted(Tail(sorted), x)

RECURSIVE StableSort(_)
\* Array.prototype.sort with the comparator above (stable)
StableSort(seq) ==
  IF seq = <<>> THEN <<>>
  ELSE InsertSorted(StableSort(SubSeq(seq, 1, Len(seq) - 1)), seq[Len(seq)])

\* Faulty variant of listAll: only the first page of the list is read.
firstPageOnly(items) == SubSeq(items, 1, IF Len(items) < PageSize THEN Len(items) ELSE PageSize)

RECURSIVE listAll(_)
\* syncListItems.list({pageSize}): the client library fetches page after page
\* and resolves with the items of all pages (no limit is given)
listAll(items) ==
  IF Len(items) <= PageSize THEN items
  ELSE SubSeq(items, 1, PageSize) \o listAll(SubSeq(items, PageSize + 1, Len(items)))

\* What getContactState answers inside the due query: the document, or nothing
\* when the document is absent (404 -> null) or its fetch throws (phone in
\* `failing`); in both cases the list member is skipped.
Loadable(d, failing) == [p \in DOMAIN d |-> IF p \in failing THEN <<>> ELSE d[p]]

\* Faulty variant of ActiveContacts: the walk ends at the first list member
\* whose document is not there.
ActiveContactsUntilMissing(d, idx) ==
  LET members == Dedup(listAll(idx), {})
      missing == {k \in 1..Len(members) : d[members[k]] = <<>>}
      upto == IF missing = {} THEN members
              ELSE SubSeq(members, 1, (CHOOSE k \in missing : \A j \in missing : k <= j) - 1)
      kept == SelectSeq(upto, LAMBDA p : isActive(d[p][1].status))
  IN [i \in 1..Len(kept) |-> d[kept[i]][1]]

\* the list members whose document exists with an active status
ActiveContacts(d, idx) ==
  LET members == Dedup(listAll(idx), {})
      kept == SelectSeq(members, LAMBDA p : d[p] # <<>> /\ isActive(d[p][1].status))
  IN [i \in 1..Len(kept) |-> d[kept[i]][1]]

\* Faulty variant of queryContactsDueForCall: the due-time filter is missing.
queryAllActive(d, idx, t) == StableSort(ActiveContacts(d, idx))

\* queryContactsDueForCall(timestamp)
queryContactsDueForCall(d, idx, t) ==
  SelectSeq(StableSort(ActiveContacts(d, idx)),
            LAMBDA c : c.nextCallTimestamp # NoNum /\ c.nextCallTimestamp <= t)

\* queryContactsDueForCall(timestamp) of the older manage_contact_state: the
\* same walk over the list, the due test made per member, no sort.
queryContactsDueUnsorted(d, idx, t) ==
  LET members == Dedup(listAll(idx), {})
      kept == SelectSeq(members,
                        LAMBDA p : /\ d[p] # <<>>
                                   /\ isActive(d[p][1].status)
                                   /\ d[p][1].nextCallTimestamp # NoNum
                                   /\ d[p][1].nextCallTimestamp <= t)
  IN [i \in 1..Len(kept) |-> d[kept[i]][1]]

\* The fields of a due contact that the engine loop reads.
DueView(c) ==
  [phoneNumber |-> c.phoneNumber, attemptCount |-> c.attemptCount,
   lastCallDisposition |-> c.lastCallDisposition, leadId |-> c.leadId]

\* ------------------------------------------------------------------- Init
Requests == {"r1", "r2"}

\* result: the reason_code of the request's last response
IdleIntake == [pc |-> "idle", phone |-> NoStr, prio |-> NoNum, lead |-> 0, result |-> "none"]

\* result: the response status of the last invocation, kept only for
\* 'no_leads_found'
IdleDialer == [pc |-> "idle", row |-> 0, result |-> "none"]

IdleSched == [pc |-> "idle", due |-> <<>>, sid |-> NoTok]

Init ==
  /\ intake = [r \in Requests |-> IdleIntake]
  /\ variant \in {"flat", "segment"}
  /\ now = 0
  /\ ticks = 0
  /\ leads = <<>>
  /\ hopper = <<>>
  /\ dialer = [d \in Dialers |-> IdleDialer]
  /\ docs = [p \in Phones |-> <<>>]
  /\ index = <<>>
  /\ sched = [s \in Scheds |-> IdleSched]
  /\ calls = <<>>

\* ------------------------------------------------------------ lead intake
\* ingest_lead: duplicate check by phone number, insert the lead, insert its
\* hopper row with status PENDING_INITIAL_CALL.
IngestLead(phone, prio) ==
  /\ Len(leads) < MaxIngests
  /\ \A i \in 1..Len(leads) : leads[i].phone_number # phone
  /\ leads' = Append(leads, [phone_number |-> phone, hopper_priority |-> prio])
  /\ hopper' = Append(hopper, [lead_id |-> Len(leads) + 1, hopper_entry_timestamp |-> now,
                               priority |-> prio, status |-> "PENDING_INITIAL_CALL",
                               lockedBy |-> "", initial_call_provider_sid |-> NoTok,
                               claims |-> 0])
  /\ UNCHANGED <<intake, variant, now, ticks, dialer, docs, index, sched, calls>>

\* The same handler statement by statement, for requests that overlap or fail.
\* Step 1: SELECT id FROM leads WHERE phone_number = $1
IntakeCheck(r, phone, prio, res) ==
  /\ intake[r].pc = "idle"
  /\ Len(leads) < MaxIngests
  /\ intake' = [intake EXCEPT ![r] =
       IF res = "fail" THEN [IdleIntake EXCEPT !.result = "INTERNAL_SERVER_ERROR"]
       ELSE IF \E i \in 1..Len(leads) : leads[i].phone_number = phone
       THEN [IdleIntake EXCEPT !.result = "DUPLICATE_LEAD"]
       ELSE [pc |-> "insertLead", phone |-> phone, prio |-> prio, lead |-> 0, result |-> "none"]]
  /\ UNCHANGED <<variant, now, ticks, leads, hopper, dialer, docs, index, sched, calls>>

\* Step 2: INSERT INTO leads ... RETURNING id.  No statement of the handler
\* looks at the table again; whether the table refuses a second row of the
\* same phone number is decided by a schema that is not part of the sources,
\* so both outcomes are possible for such a row.
IntakeInsertLead(r, res) ==
  /\ intake[r].pc = "insertLead"
  /\ IF res = "ok"
     THEN /\ leads' = Append(leads, [phone_number |-> intake[r].phone, hopper_priority |-> intake[r].prio])
          /\ intake' = [intake EXCEPT ![r].pc = "insertHopper", ![r].lead = Len(leads) + 1]
     ELSE /\ leads' = leads
          /\ intake' = [intake EXCEPT ![r] = [IdleIntake EXCEPT !.result = "INTERNAL_SERVER_ERROR"]]
  /\ UNCHANGED <<variant, now, ticks, hopper, dialer, docs, index, sched, calls>>

\* Step 3: INSERT INTO hopper (lead_id, hopper_entry_timestamp, status, priority).
\* The statements run without a transaction: a failure here answers 500 and
\* leaves the lead row of step 2 in place.
IntakeInsertHopper(r, res) ==
  /\ intake[r].pc = "insertHopper"
  /\ IF res = "ok"
     THEN /\ hopper' = Append(hopper, [lead_id |-> intake[r].lead, hopper_entry_timestamp |-> now,
                                       priority |-> intake[r].prio, status |-> "PENDING_INITIAL_CALL",
                                       lockedBy |-> "", initial_call_provider_sid |-> NoTok,
                                       claims |-> 0])
          /\ intake' = [intake EXCEPT ![r] = [IdleIntake EXCEPT !.result = "LEAD_ADDED"]]
     ELSE /\ hopper' = hopper
          /\ intake' = [intake EXCEPT ![r] = [IdleIntake EXCEPT !.result = "INTERNAL_SERVER_ERROR"]]
  /\ UNCHANGED <<variant, now, ticks, leads, dialer, docs, index, sched, calls>>

\* ---------------------------------------------------------- initial dialer
ErrorStatuses ==
  {"ERROR_PROCESSING_LEAD_NOT_FOUND", "ERROR_INITIATING_CALL", "ERROR_PROCESSING_UNHANDLED"}

\* The spec's four queue statuses for the hopper's status strings.
QueueStatus(s) ==
  CASE s = "PENDING_INITIAL_CALL" -> "PENDING"
    [] s = "PROCESSING_INITIAL_CALL" -> "CLAIMED"
    [] s = "INITIAL_CALL_COMPLETED" -> "COMPLETED"
    [] OTHER -> "ERROR"

\* Faulty variant of HopperBefore: ORDER BY priority ASC NULLS LAST,
\* hopper_entry_timestamp ASC.
HopperBeforeByPriority(a, b) ==
  \/ LessOrMissing(a.priority, b.priority)
  \/ /\ a.priority = b.priority
     /\ a.hopper_entry_timestamp < b.hopper_entry_timestamp

\* ORDER BY hopper_entry_timestamp ASC, priority ASC NULLS LAST
HopperBefore(a, b) ==
  \/ a.hopper_entry_timestamp < b.hopper_entry_timestamp
  \/ /\ a.hopper_entry_timestamp = b.hopper_entry_timestamp
     /\ LessOrMissing(a.priority, b.priority)

\* Faulty variant of Lockable: the sub-select without FOR UPDATE SKIP LOCKED
\* sees every PENDING row, locked or not.
LockableIgnoringLocks(h) == hopper[h].status = "PENDING_INITIAL_CALL"

\* WHERE status = 'PENDING_INITIAL_CALL' ... FOR UPDATE SKIP LOCKED: the rows
\* the sub-select may lock
Lockable(h) == hopper[h].status = "PENDING_INITIAL_CALL" /\ hopper[h].lockedBy = ""

\* Faulty variant of FirstLockable: LIMIT 1 is applied before locked rows are
\* skipped, so a locked first row hides the rows behind it.
FirstPendingIfUnlocked ==
  {h \in 1..Len(hopper) :
     /\ hopper[h].status = "PENDING_INITIAL_CALL" /\ hopper[h].lockedBy = ""
     /\ \A g \in 1..Len(hopper) :
          hopper[g].status = "PENDING_INITIAL_CALL" => ~HopperBefore(hopper[g], hopper[h])}

\* ... ORDER BY ... LIMIT 1: a lockable row that no other lockable row precedes
FirstLockable ==
  {h \in 1..Len(hopper) :
     /\ Lockable(h)
     /\ \A g \in 1..Len(hopper) : Lockable(g) => ~HopperBefore(hopper[g], hopper[h])}

\* The sub-select of fetchAndLockQuery: lock the first lockable row.
DialerSelect(d) ==
  /\ dialer[d].pc = "idle"
  /\ \E h \in FirstLockable :
       /\ hopper' = [hopper EXCEPT ![h].lockedBy = d]
       /\ dialer' = [dialer EXCEPT ![d] = [pc |-> "locked", row |-> h, result |-> "none"]]
  /\ UNCHANGED <<intake, variant, now, ticks, leads, docs, index, sched, calls>>

\* The sub-select finds no row: 'no_leads_found'.
DialerNoLeads(d) ==
  /\ dialer[d].pc = "idle"
  /\ FirstLockable = {}
  /\ dialer' = [dialer EXCEPT ![d] = [pc |-> "idle", row |-> 0, result |-> "no_leads_found"]]
  /\ UNCHANGED <<intake, variant, now, ticks, leads, hopper, docs, index, sched, calls>>

\* The UPDATE of fetchAndLockQuery and its commit: the locked row becomes
\* PROCESSING_INITIAL_CALL and is RETURNed as hopperEntry.
DialerUpdate(d) ==
  /\ dialer[d].pc = "locked"
  /\ hopper' = [hopper EXCEPT ![dialer[d].row].status = "PROCESSING_INITIAL_CALL",
                              ![dialer[d].row].lockedBy = "",
                              ![dialer[d].row].claims = @ + 1]
  /\ dialer' = [dialer EXCEPT ![d].pc = "claimed"]
  /\ UNCHANGED <<intake, variant, now, ticks, leads, docs, index, sched, calls>>

\* fetchAndLockQuery fails: the statement is rolled back, hopperEntry is
\* still null in the catch block.
DialerQueryFail(d) ==
  /\ dialer[d].pc = "locked"
  /\ hopper' = [hopper EXCEPT ![dialer[d].row].lockedBy = ""]
  /\ dialer' = [dialer EXCEPT ![d] = IdleDialer]
  /\ UNCHANGED <<intake, variant, now, ticks, leads, docs, index, sched, calls>>

\* Faulty variant of CatchUpdate: the catch block puts the row back in the queue.
CatchRequeue(hop, h, fb) ==
  IF fb = "ok" /\ hop[h].status = "PROCESSING_INITIAL_CALL"
  THEN [hop EXCEPT ![h].status = "PENDING_INITIAL_CALL"]
  ELSE hop

\* The catch block: UPDATE ... 'ERROR_PROCESSING_UNHANDLED' WHERE id = $1 AND
\* status = 'PROCESSING_INITIAL_CALL'; fb = "fail" when that update fails too.
CatchUpdate(hop, h, fb) ==
  IF fb = "ok" /\ hop[h].status = "PROCESSING_INITIAL_CALL"
  THEN [hop EXCEPT ![h].status = "ERROR_PROCESSING_UNHANDLED"]
  ELSE hop

\* Faulty variant of InitiationErrorStatus: requeue on failure.
RequeueStatus == "PENDING_INITIAL_CALL"

\* The status written when call initiation failed.
InitiationErrorStatus == "ERROR_INITIATING_CALL"

\* Lead fetched, tracking id stored, start.ts accepted the call.
DialerPlaceOk(d, disp) ==
  /\ dialer[d].pc = "claimed"
  /\ Len(calls) < MaxCalls
  /\ LET h == dialer[d].row
         l == hopper[h].lead_id
         trackingId == InitialToken(h, l, now)
     IN /\ hopper' = [hopper EXCEPT ![h].initial_call_provider_sid = trackingId]
        /\ calls' = Append(calls, [token |-> trackingId, phone |-> leads[l].phone_number,
                                   disposition |-> disp, ended |-> now, deliv |-> 0, rejected |-> 0])
  /\ dialer' = [dialer EXCEPT ![d] = IdleDialer]
  /\ UNCHANGED <<intake, variant, now, ticks, leads, docs, index, sched>>

\* Lead fetched, tracking id stored, start.ts threw or answered non-success.
\* upd = "ok": the ERROR_INITIATING_CALL update succeeded; otherwise it threw
\* and the catch block ran with fallback result fb.
DialerPlaceFail(d, upd, fb) ==
  /\ dialer[d].pc = "claimed"
  /\ LET h == dialer[d].row
         trackingId == InitialToken(h, hopper[h].lead_id, now)
         stored == [hopper EXCEPT ![h].initial_call_provider_sid = trackingId]
     IN IF upd = "ok"
        THEN /\ hopper' = [stored EXCEPT ![h].status = InitiationErrorStatus]
             /\ dialer' = [dialer EXCEPT ![d] = IdleDialer]
        ELSE /\ hopper' = CatchUpdate(stored, h, fb)
             /\ dialer' = [dialer EXCEPT ![d] = IdleDialer]
  /\ UNCHANGED <<intake, variant, now, ticks, leads, docs, index, sched, calls>>

\* The lead query or the tracking-id update threw: straight to the catch block.
DialerDbError(d, fb) ==
  /\ dialer[d].pc = "claimed"
  /\ hopper' = CatchUpdate(hopper, dialer[d].row, fb)
  /\ dialer' = [dialer EXCEPT ![d] = IdleDialer]
  /\ UNCHANGED <<intake, variant, now, ticks, leads, docs, index, sched, calls>>

\* ---------------------------------------------------------- cadence engine
\* ruleKey of the engine loop
RuleKeyOf(c) ==
  IF c.attemptCount = 0 /\ c.lastCallDisposition = NoStr THEN "NEW_LEAD"
  ELSE IF c.lastCallDisposition # NoStr THEN c.lastCallDisposition ELSE "DEFAULT"

\* Faulty variant of Exhausted: the maximum is never looked at.
NeverExhausted(v, c) == FALSE

\* contact.attemptCount >= dispositionRule.maxAttempts
Exhausted(v, c) == JsGe(c.attemptCount, RuleFor(getCadenceRules(v), RuleKeyOf(c)).maxAttempts)

\* the partial states the engine hands to addOrUpdate (undefined fields are
\* dropped on the wire)
finalState(v, c) ==
  [BlankState(c.phoneNumber) EXCEPT
     !.status = RuleFor(getCadenceRules(v), RuleKeyOf(c)).finalStatusOnExhaustion]

stateUpdateForCallAttempt(c, sid) == [BlankState(c.phoneNumber) EXCEPT !.currentCallSid = sid]

\* Faulty variant of revertState: the token is cleared, no status is set.
revertTokenOnly(c) == BlankState(c.phoneNumber)

revertState(c) == [BlankState(c.phoneNumber) EXCEPT !.status = "ERROR"]

\* Faulty variant of Advance: a failure ends the whole invocation.
AbortBatch(s) == IdleSched

\* next iteration of `for (const contact of dueContacts)`
Advance(s) ==
  LET rest == Tail(sched[s].due)
  IN [pc |-> IF rest = <<>> THEN "idle" ELSE "loop", due |-> rest, sid |-> NoTok]

\* Step 1: the due query succeeds; the documents of the phones in `failing`
\* could not be fetched during the query.
SchedQuery(s, failing) ==
  /\ sched[s].pc = "idle"
  /\ LET due == queryContactsDueForCall(Loadable(docs, failing), index, now)
     IN /\ due # <<>>
        /\ sched' = [sched EXCEPT ![s] = [pc |-> "loop", sid |-> NoTok,
                                           due |-> [k \in 1..Len(due) |-> DueView(due[k])]]]
  /\ UNCHANGED <<intake, variant, now, ticks, leads, hopper, dialer, docs, index, calls>>

\* Step 1 fails (the queryDue invocation throws or answers non-200): the
\* invocation answers 500 and no contact is processed.
SchedQueryFail(s) ==
  /\ sched[s].pc = "idle"
  /\ UNCHANGED vars

\* Max attempts reached: persist the final status, no call.
SchedExhaust(s, res) ==
  /\ sched[s].pc = "loop"
  /\ LET c == Head(sched[s].due)
     IN /\ Exhausted(variant, c)
        /\ docs' = DocsAfter(docs, finalState(variant, c), res)
        /\ index' = ListAfter(index, finalState(variant, c), res)
  /\ sched' = [sched EXCEPT ![s] = Advance(s)]
  /\ UNCHANGED <<intake, variant, now, ticks, leads, hopper, dialer, calls>>

\* Persist the fresh currentCallSid before the call.  res = "throw": the
\* invocation failed, the contact is skipped; res = "nodoc": the store
\* answered {success: false}, which the engine does not look at.
SchedMark(s, res) ==
  /\ sched[s].pc = "loop"
  /\ LET c == Head(sched[s].due)
         sid == TempToken(now, c.phoneNumber)
     IN /\ ~Exhausted(variant, c)
        /\ docs' = DocsAfter(docs, stateUpdateForCallAttempt(c, sid), res)
        /\ index' = ListAfter(index, stateUpdateForCallAttempt(c, sid), res)
        /\ sched' = [sched EXCEPT ![s] =
                       IF res = "throw" THEN Advance(s) ELSE [@ EXCEPT !.pc = "place", !.sid = sid]]
  /\ UNCHANGED <<intake, variant, now, ticks, leads, hopper, dialer, calls>>

\* start_call accepted the call.
SchedPlaceOk(s, disp) ==
  /\ sched[s].pc = "place"
  /\ Len(calls) < MaxCalls
  /\ calls' = Append(calls, [token |-> sched[s].sid, phone |-> Head(sched[s].due).phoneNumber,
                             disposition |-> disp, ended |-> now, deliv |-> 0, rejected |-> 0])
  /\ sched' = [sched EXCEPT ![s] = Advance(s)]
  /\ UNCHANGED <<intake, variant, now, ticks, leads, hopper, dialer, docs, index>>

\* start_call threw or answered non-success: write the revert state.
SchedPlaceFail(s, res) ==
  /\ sched[s].pc = "place"
  /\ LET c == Head(sched[s].due)
     IN /\ docs' = DocsAfter(docs, revertState(c), res)
        /\ index' = ListAfter(index, revertState(c), res)
  /\ sched' = [sched EXCEPT ![s] = Advance(s)]
  /\ UNCHANGED <<intake, variant, now, ticks, leads, hopper, dialer, calls>>

\* ------------------------------------------------- call-outcome webhook
\* The outcome event the provider delivers for placed call i.
EventOf(i) ==
  [token |-> calls[i].token, phone |-> calls[i].phone,
   disposition |-> calls[i].disposition, ended |-> calls[i].ended]

Undelivered(i) == i \in 1..Len(calls) /\ calls[i].deliv < MaxDeliveries

Delivered(i) == [calls EXCEPT ![i].deliv = @ + 1]

\* the delivery was answered 400
Rejected(i) == [calls EXCEPT ![i].deliv = @ + 1, ![i].rejected = @ + 1]

RequiredFields == {"token", "phone", "disposition", "ended"}

\* the event with one field absent
Without(ev, f) ==
  [ev EXCEPT ![f] = IF f = "token" THEN NoTok ELSE IF f = "ended" THEN NoNum ELSE NoStr]

\* Faulty variant of HasRequiredFields: call_ended_timestamp is not looked at.
HasRequiredFieldsButEnded(ev) ==
  ev.token # NoTok /\ ev.phone # NoStr /\ ev.disposition # NoStr

\* !(!event.twilio_call_sid || !event.phone_number || !event.disposition ||
\*   !event.call_ended_timestamp)
HasRequiredFields(ev) ==
  ev.token # NoTok /\ ev.phone # NoStr /\ ev.disposition # NoStr /\ ev.ended # NoNum

\* UPDATE hopper SET status = 'INITIAL_CALL_COMPLETED' ... WHERE id = $4
\* (a failure of this update is logged and processing continues)
HopperAfterOutcome(hop, h, res) ==
  IF res = "ok" /\ h \in 1..Len(hop)
  THEN [hop EXCEPT ![h].status = "INITIAL_CALL_COMPLETED"]
  ELSE hop

\* SELECT * FROM leads WHERE id = $1
LeadRow(l) ==
  [id |-> l, phone_number |-> leads[l].phone_number, hopper_priority |-> leads[l].hopper_priority]

\* Segment webhook, initial-call branch.  hres: hopper update; lres: lead
\* query ("throw" ends the invocation with 500); wres: addOrUpdate.
\* `contactState` is read as the handler's local variable, as in the flat webhook.
WebhookInitial(i, hres, lres, wres) ==
  /\ variant = "segment"
  /\ Undelivered(i)
  /\ HasRequiredFields(EventOf(i))
  /\ isInitialCall(calls[i].token)
  /\ LET hopperId == calls[i].token[2]
         leadIdDb == calls[i].token[3]
         st == DecideInitial(LeadRow(leadIdDb), EventOf(i), now)
     IN /\ hopper' = HopperAfterOutcome(hopper, hopperId, hres)
        /\ IF lres = "ok"
           THEN /\ docs' = DocsAfter(docs, st, wres)
                /\ index' = ListAfter(index, st, wres)
           ELSE UNCHANGED <<docs, index>>
  /\ calls' = Delivered(i)
  /\ UNCHANGED <<intake, variant, now, ticks, leads, dialer, sched>>

\* What the webhook holds after the 'get' invocation: the document, or null
\* when the contact is not found or the fetch failed (gres # "ok").
Fetched(phone, gres) == IF gres = "ok" THEN getContactState(phone) ELSE <<>>

\* Segment webhook, cadence branch.
WebhookCadence(i, gres, wres) ==
  /\ variant = "segment"
  /\ Undelivered(i)
  /\ HasRequiredFields(EventOf(i))
  /\ ~isInitialCall(calls[i].token)
  /\ LET st == DecideCadence(Fetched(calls[i].phone, gres), EventOf(i), now)
     IN /\ docs' = DocsAfter(docs, st, wres)
        /\ index' = ListAfter(index, st, wres)
  /\ calls' = Delivered(i)
  /\ UNCHANGED <<intake, variant, now, ticks, leads, hopper, dialer, sched>>

\* Flat webhook: every outcome is reconciled by phone number.
WebhookFlat(i, gres, wres) ==
  /\ variant = "flat"
  /\ Undelivered(i)
  /\ HasRequiredFields(EventOf(i))
  /\ LET st == DecideFlat(Fetched(calls[i].phone, gres), EventOf(i), now)
     IN /\ docs' = DocsAfter(docs, st, wres)
        /\ index' = ListAfter(index, st, wres)
  /\ calls' = Delivered(i)
  /\ UNCHANGED <<intake, variant, now, ticks, leads, hopper, dialer, sched>>

\* An outcome event for placed call i arrives with field f absent.  The
\* handler validates first and answers 400; an event that passes validation is
\* reconciled as in the branches above.
WebhookIncomplete(i, f, gres, wres) ==
  /\ Undelivered(i)
  /\ LET ev == Without(EventOf(i), f)
     IN IF ~HasRequiredFields(ev)
        THEN /\ calls' = Rejected(i)
             /\ UNCHANGED <<hopper, docs, index>>
        ELSE LET initial == variant = "segment" /\ isInitialCall(ev.token)
                 st == IF variant = "flat" THEN DecideFlat(Fetched(ev.phone, gres), ev, now)
                       ELSE IF initial THEN DecideInitial(LeadRow(ev.token[3]), ev, now)
                       ELSE DecideCadence(Fetched(ev.phone, gres), ev, now)
             IN /\ calls' = Delivered(i)
                /\ hopper' = IF initial THEN HopperAfterOutcome(hopper, ev.token[2], gres) ELSE hopper
                /\ docs' = DocsAfter(docs, st, wres)
                /\ index' = ListAfter(index, st, wres)
  /\ UNCHANGED <<intake, variant, now, ticks, leads, dialer, sched>>

\* ------------------------------------------------------------------ clock
\* A second passes.
TickSecond ==
  /\ ticks < MaxTicks
  /\ ticks' = ticks + 1
  /\ now' = now + 1
  /\ UNCHANGED <<intake, variant, leads, hopper, dialer, docs, index, sched, calls>>

\* Time passes up to a scheduled call time.
TickToDue ==
  /\ ticks < MaxTicks
  /\ ticks' = ticks + 1
  /\ now' \in {t \in {docs[p][1].nextCallTimestamp : p \in {q \in Phones : docs[q] # <<>>}} : t > now}
  /\ UNCHANGED <<intake, variant, leads, hopper, dialer, docs, index, sched, calls>>

Outcomes == {"ok", "fail"}

Next ==
  \/ \E p \in Phones, prio \in Priorities : IngestLead(p, prio)
  \/ \E r \in Requests, p \in Phones, prio \in Priorities, res \in Outcomes : IntakeCheck(r, p, prio, res)
  \/ \E r \in Requests, res \in Outcomes : IntakeInsertLead(r, res)
  \/ \E r \in Requests, res \in Outcomes : IntakeInsertHopper(r, res)
  \/ \E d \in Dialers : DialerSelect(d)
  \/ \E d \in Dialers : DialerNoLeads(d)
  \/ \E d \in Dialers : DialerUpdate(d)
  \/ \E d \in Dialers : DialerQueryFail(d)
  \/ \E d \in Dialers, disp \in EventDispositions : DialerPlaceOk(d, disp)
  \/ \E d \in Dialers, upd \in Outcomes, fb \in Outcomes : DialerPlaceFail(d, upd, fb)
  \/ \E d \in Dialers, fb \in Outcomes : DialerDbError(d, fb)
  \/ \E s \in Scheds, failing \in SUBSET Phones : SchedQuery(s, failing)
  \/ \E s \in Scheds : SchedQueryFail(s)
  \/ \E s \in Scheds, res \in WriteResults : SchedExhaust(s, res)
  \/ \E s \in Scheds, res \in WriteResults : SchedMark(s, res)
  \/ \E s \in Scheds, disp \in EventDispositions : SchedPlaceOk(s, disp)
  \/ \E s \in Scheds, res \in WriteResults : SchedPlaceFail(s, res)
  \/ \E i \in 1..MaxCalls, hres \in Outcomes, lres \in Outcomes, wres \in WriteResults :
       WebhookInitial(i, hres, lres, wres)
  \/ \E i \in 1..MaxCalls, gres \in Outcomes, wres \in WriteResults : WebhookCadence(i, gres, wres)
  \/ \E i \in 1..MaxCalls, gres \in Outcomes, wres \in WriteResults : WebhookFlat(i, gres, wres)
  \/ \E i \in 1..MaxCalls, f \in RequiredFields, gres \in Outcomes, wres \in WriteResults :
       WebhookIncomplete(i, f, gres, wres)
  \/ TickSecond
  \/ TickToDue

Spec == Init /\ [][Next]_vars

\* ------------------------------------------------------ work-queue system
\* Lead intake, the initial dialer and the reconciliation of initial calls by
\* the segment webhook (the only one that knows the hopper).
InitQueue == Init /\ variant = "segment"

NextQueue ==
  \/ \E p \in Phones, prio \in Priorities : IngestLead(p, prio)
  \/ \E d \in Dialers : DialerSelect(d)
  \/ \E d \in Dialers : DialerNoLeads(d)
  \/ \E d \in Dialers : DialerUpdate(d)
  \/ \E d \in Dialers : DialerQueryFail(d)
  \/ \E d \in Dialers, disp \in InitialDispositions : DialerPlaceOk(d, disp)
  \/ \E d \in Dialers, upd \in Outcomes, fb \in Outcomes : DialerPlaceFail(d, upd, fb)
  \/ \E d \in Dialers, fb \in Outcomes : DialerDbError(d, fb)
  \/ \E i \in 1..MaxCalls, hres \in Outcomes, lres \in Outcomes, wres \in WriteResults :
       WebhookInitial(i, hres, lres, wres)
  \/ TickSecond

SpecQueue == InitQueue /\ [][NextQueue]_vars

\* --------------------------------------------------------- cadence system
\* The cadence engine and the webhook, started where the work queue has handed
\* a lead over: one lead ingested, claimed and called, and the outcome of that
\* initial call reconciled into the contact state store at time 0.
HandedOver(v, prio, disp) ==
  LET ev == [token |-> InitialToken(1, 1, 0), phone |-> "p1", disposition |-> disp, ended |-> 0]
  IN IF v = "flat" THEN DecideFlat(<<>>, ev, 0)
     ELSE DecideInitial([id |-> 1, phone_number |-> "p1", hopper_priority |-> prio], ev, 0)

InitCadence ==
  /\ intake = [r \in Requests |-> IdleIntake]
  /\ variant \in {"flat", "segment"}
  /\ now = 0
  /\ ticks = 0
  /\ dialer = [d \in Dialers |-> IdleDialer]
  /\ sched = [s \in Scheds |-> IdleSched]
  /\ calls = <<>>
  /\ \E prio \in Priorities, disp \in EventDispositions :
       /\ leads = <<[phone_number |-> "p1", hopper_priority |-> prio]>>
       /\ hopper = <<[lead_id |-> 1, hopper_entry_timestamp |-> 0, priority |-> prio,
                      status |-> IF variant = "flat" THEN "PROCESSING_INITIAL_CALL"
                                 ELSE "INITIAL_CALL_COMPLETED",
                      lockedBy |-> "", initial_call_provider_sid |-> InitialToken(1, 1, 0),
                      claims |-> 1]>>
       /\ docs = [p \in Phones |-> IF p = "p1" THEN <<HandedOver(variant, prio, disp)>> ELSE <<>>]
       /\ index = IndexAfter(<<>>, HandedOver(variant, prio, disp))

NextCadence ==
  \/ \E s \in Scheds, failing \in SUBSET Phones : SchedQuery(s, failing)
  \/ \E s \in Scheds : SchedQueryFail(s)
  \/ \E s \in Scheds, res \in WriteResults : SchedExhaust(s, res)
  \/ \E s \in Scheds, res \in WriteResults : SchedMark(s, res)
  \/ \E s \in Scheds, disp \in EventDispositions : SchedPlaceOk(s, disp)
  \/ \E s \in Scheds, res \in WriteResults : SchedPlaceFail(s, res)
  \/ \E i \in 1..MaxCalls, gres \in Outcomes, wres \in WriteResults : WebhookCadence(i, gres, wres)
  \/ \E i \in 1..MaxCalls, gres \in Outcomes, wres \in WriteResults : WebhookFlat(i, gres, wres)
  \/ TickToDue

SpecCadence == InitCadence /\ [][NextCadence]_vars

\* ------------------------------------------------- store and engine batch
\* The contact state store with several contacts and one cadence-engine
\* invocation at a time working through its batch of due contacts.
\* The records a webhook stores for the first outcome of a lead.
StoredRecords(v, p) ==
  {IF v = "flat"
   THEN DecideFlat(<<>>, [token |-> InitialToken(1, 1, 0), phone |-> p, disposition |-> disp, ended |-> 0], 0)
   ELSE DecideInitial([id |-> 1, phone_number |-> p, hopper_priority |-> prio],
                      [token |-> InitialToken(1, 1, 0), phone |-> p, disposition |-> disp, ended |-> 0], 0)
     : prio \in Priorities, disp \in EventDispositions}

\* every sequence of phone numbers of length <= MaxIndexLen: members may be
\* repeated (every ACTIVE write appends) or stale (a list removal failed)
IndexContents == UNION {[1..n -> Phones] : n \in 0..MaxIndexLen}

InitStore ==
  /\ intake = [r \in Requests |-> IdleIntake]
  /\ variant \in {"flat", "segment"}
  /\ now = 0
  /\ ticks = 0
  /\ leads = <<>>
  /\ hopper = <<>>
  /\ dialer = [d \in Dialers |-> IdleDialer]
  /\ sched = [s \in Scheds |-> IdleSched]
  /\ calls = <<>>
  /\ docs \in [Phones -> {<<>>} \cup {<<r>> : r \in UNION {StoredRecords(variant, p) : p \in Phones}}]
  /\ \A p \in Phones : docs[p] # <<>> => docs[p][1].phoneNumber = p
  /\ index \in IndexContents

NextStore ==
  \/ \E failing \in SUBSET Phones : SchedQuery("s1", failing)
  \/ SchedQueryFail("s1")
  \/ \E res \in WriteResults : SchedExhaust("s1", res)
  \/ \E res \in WriteResults : SchedMark("s1", res)
  \/ SchedPlaceOk("s1", "NO_ANSWER")
  \/ \E res \in WriteResults : SchedPlaceFail("s1", res)
  \/ TickToDue

SpecStore == InitStore /\ [][NextStore]_vars

\* ------------------------------------------------------ outcome intake
\* One cadence-engine invocation places calls for a handed-over contact; the
\* webhook receives their outcome events, complete or with a field absent.
NextOutcome ==
  \/ \E failing \in SUBSET Phones : SchedQuery("s1", failing)
  \/ \E res \in WriteResults : SchedMark("s1", res)
  \/ \E disp \in EventDispositions : SchedPlaceOk("s1", disp)
  \/ \E i \in 1..MaxCalls, gres \in Outcomes, wres \in WriteResults : WebhookCadence(i, gres, wres)
  \/ \E i \in 1..MaxCalls, gres \in Outcomes, wres \in WriteResults : WebhookFlat(i, gres, wres)
  \/ \E i \in 1..MaxCalls, f \in RequiredFields : WebhookIncomplete(i, f, "ok", "ok")
  \/ TickToDue

SpecOutcome == InitCadence /\ [][NextOutcome]_vars

\* ------------------------------------------------------------ lead intake
\* Two ingest_lead requests that may overlap, with the initial dialer's claim
\* running beside them.
NextIntake ==
  \/ \E r \in Requests, p \in Phones, prio \in Priorities, res \in Outcomes : IntakeCheck(r, p, prio, res)
  \/ \E r \in Requests, res \in Outcomes : IntakeInsertLead(r, res)
  \/ \E r \in Requests, res \in Outcomes : IntakeInsertHopper(r, res)
  \/ \E d \in Dialers : DialerSelect(d)
  \/ \E d \in Dialers : DialerUpdate(d)
  \/ TickSecond

SpecIntake == InitQueue /\ [][NextIntake]_vars

\* ---------------------------------------------------------- decision step
\* The decision step of the webhooks applied to every kind of stored record
\* and outcome event: one lead, one call whose outcome is to be reconciled.
StoredStatuses ==
  {"ACTIVE", "PENDING", "PAUSED", "COMPLETED_SUCCESS", "COMPLETED_EXHAUSTED", "ERROR"}

\* every outcome category named by either rule table, the handoff category
\* that has no rule of its own, and one category that nothing names
OutcomeCategories ==
  DOMAIN SegmentRules \cup DOMAIN FlatRules \cup {"CALL_TRANSFERRED", "CUSTOMER_HUNG_UP"}

\* What the store can hold for a phone number: nothing, the partial record
\* the engine writes before a call, or a record written by a webhook after
\* n outcomes (n = 0: a contact stored before its first call, the case the
\* NEW_LEAD rule is written for).
PriorRecords(p) ==
  {<<>>, <<stateUpdateForCallAttempt([phoneNumber |-> p], TempToken(0, p))>>}
  \cup {<<[BlankState(p) EXCEPT !.attemptCount = n, !.status = st, !.hopperPriority = prio,
                                !.lastCallDisposition = IF n = 0 THEN NoStr ELSE "NO_ANSWER",
                                !.nextCallTimestamp = IF st = "ACTIVE" THEN 0 ELSE NoNum]>>
          : n \in 0..MaxPriorAttempts, st \in StoredStatuses, prio \in Priorities}

InitDecide ==
  /\ intake = [r \in Requests |-> IdleIntake]
  /\ variant \in {"flat", "segment"}
  /\ now = DecideClock
  /\ ticks = 0
  /\ dialer = [d \in Dialers |-> IdleDialer]
  /\ sched = [s \in Scheds |-> IdleSched]
  /\ \E prio \in Priorities :
       /\ leads = <<[phone_number |-> "p1", hopper_priority |-> prio]>>
       /\ hopper = <<[lead_id |-> 1, hopper_entry_timestamp |-> 0, priority |-> prio,
                      status |-> "PROCESSING_INITIAL_CALL", lockedBy |-> "",
                      initial_call_provider_sid |-> InitialToken(1, 1, 0), claims |-> 1]>>
  /\ \E prior \in PriorRecords("p1") : docs = [p \in Phones |-> IF p = "p1" THEN prior ELSE <<>>]
  /\ index = IF docs["p1"] # <<>> /\ isActive(docs["p1"][1].status) THEN <<"p1">> ELSE <<>>
  /\ \E tok \in {InitialToken(1, 1, 0), TempToken(0, "p1")}, disp \in OutcomeCategories,
        ended \in {0, DecideClock} :
       calls = <<[token |-> tok, phone |-> "p1", disposition |-> disp, ended |-> ended,
                  deliv |-> 0, rejected |-> 0]>>

NextDecide ==
  \/ \E hres \in Outcomes, lres \in Outcomes, wres \in WriteResults : WebhookInitial(1, hres, lres, wres)
  \/ \E gres \in Outcomes, wres \in WriteResults : WebhookCadence(1, gres, wres)
  \/ \E gres \in Outcomes, wres \in WriteResults : WebhookFlat(1, gres, wres)

SpecDecide == InitDecide /\ [][NextDecide]_vars

\* ------------------------------------------------------------ retry rounds
\* The favourable run of the cadence: one engine invocation at a time, every
\* store operation succeeds, every placed call has its outcome delivered once,
\* and the engine is next invoked when the contact has become due.
WaitUntilDue ==
  /\ Len(calls) < MaxCalls
  /\ \A i \in 1..Len(calls) : calls[i].deliv > 0
  /\ \A s \in Scheds : sched[s].pc = "idle"
  /\ now' \in {t \in {docs[p][1].nextCallTimestamp : p \in {q \in Phones : docs[q] # <<>>}} : t > now}
  /\ UNCHANGED <<intake, variant, ticks, leads, hopper, dialer, docs, index, sched, calls>>

NextRetry ==
  \/ SchedQuery("s1", {})
  \/ SchedExhaust("s1", "ok")
  \/ SchedMark("s1", "ok")
  \/ \E disp \in EventDispositions : SchedPlaceOk("s1", disp)
  \/ \E i \in 1..MaxCalls : WebhookCadence(i, "ok", "ok") /\ calls[i].deliv = 0
  \/ \E i \in 1..MaxCalls : WebhookFlat(i, "ok", "ok") /\ calls[i].deliv = 0
  \/ WaitUntilDue

SpecRetry == InitCadence /\ [][NextRetry]_vars

\* ------------------------------------------- decision on defective policies
\* The webhook run against a rule table that is misconfigured: the entry it
\* resolves for the outcome category has fewer delay entries than its nominal
\* maximum attempts (flat table) or segments that leave attempt counts below
\* the maximum uncovered (segment table).
ExhaustionStatuses == {"COMPLETED_EXHAUSTED", "PAUSED", "ERROR"}

DefectiveFlatRules ==
  {FlatRule(NominalMax, [k \in 1..n |-> 5 * k], final) :
     n \in 0..(NominalMax - 1), final \in ExhaustionStatuses}

DefectiveSegmentRules ==
  {SegRule(SelectSeq([k \in 1..NominalMax |-> Seg(k, k, minutesDelay(5 * k))],
                     LAMBDA sg : sg.callCountMin \in covered),
           NoNum, final) :
     covered \in (SUBSET (1..NominalMax)) \ {1..NominalMax}, final \in ExhaustionStatuses}

DefectiveRules(v) == IF v = "flat" THEN DefectiveFlatRules ELSE DefectiveSegmentRules

\* The handler for the outcome of call i when the rule it resolves is `rule`.
DecideWithRule(i, rule) ==
  /\ Undelivered(i)
  /\ HasRequiredFields(EventOf(i))
  /\ rule \in DefectiveRules(variant)
  /\ LET ev == EventOf(i)
         fetched == getContactState(ev.phone)
         initial == variant = "segment" /\ isInitialCall(ev.token)
         st == IF variant = "flat"
               THEN ApplyFlat(Bump(fetched, ev), ev.disposition, rule, now)
               ELSE IF initial
               THEN ApplyRules(BootstrapRecord(LeadRow(ev.token[3]), ev, rule), ev.disposition, rule, now)
               ELSE ApplyRules(CadenceRecord(fetched, ev, rule), ev.disposition, rule, now)
     IN /\ hopper' = IF initial THEN HopperAfterOutcome(hopper, ev.token[2], "ok") ELSE hopper
        /\ docs' = DocsAfter(docs, st, "ok")
        /\ index' = ListAfter(index, st, "ok")
  /\ calls' = Delivered(i)
  /\ UNCHANGED <<intake, variant, now, ticks, leads, dialer, sched>>

NextPolicy == \E rule \in DefectiveFlatRules \cup DefectiveSegmentRules : DecideWithRule(1, rule)

SpecPolicy == InitDecide /\ [][NextPolicy]_vars

\* ================================================================== claims
\* ---------------------------------------------------------------------- C1
\* C1: under any interleaving of concurrent initial-dialer invocations no
\* hopper entry is returned by the claim step more than once, and two
\* invocations never hold the same entry.
C1_ClaimedAtMostOnce ==
  /\ \A h \in 1..Len(hopper) : hopper[h].claims <= 1
  /\ \A d \in Dialers, e \in Dialers :
       (d # e /\ dialer[d].pc # "idle" /\ dialer[e].pc # "idle") => dialer[d].row # dialer[e].row

\* Two invocations have each been returned an entry at the same time.
C1_Witness ==
  /\ dialer["d1"].pc = "claimed" /\ dialer["d2"].pc = "claimed"
  /\ hopper[dialer["d1"].row].claims = 1 /\ hopper[dialer["d2"].row].claims = 1

\* ---------------------------------------------------------------------- C2
PendingRows == {h \in 1..Len(hopper) : hopper[h].status = "PENDING_INITIAL_CALL"}

\* C2: N concurrent claimers against M PENDING entries obtain min(N, M)
\* distinct entries.  A claimer answers 'no_leads_found' only when every
\* PENDING entry is at that moment being claimed by another claimer (so the M
\* entries go to M of the other N - 1 claimers), and a claimer that selects an
\* entry selects one that is PENDING and held by nobody.
C2_MinOfClaimersAndPending ==
  [][\A d \in Dialers :
       /\ (dialer[d].pc = "idle" /\ dialer'[d].pc = "idle" /\ dialer'[d] # dialer[d]
            /\ dialer'[d].result = "no_leads_found")
          => \A h \in PendingRows :
               \E e \in Dialers \ {d} : dialer[e].pc = "locked" /\ dialer[e].row = h
       /\ (dialer[d].pc = "idle" /\ dialer'[d].pc = "locked")
          => /\ dialer'[d].row \in PendingRows
             /\ hopper[dialer'[d].row].lockedBy = ""
             /\ \A e \in Dialers \ {d} : dialer[e].pc # "idle" => dialer[e].row # dialer'[d].row
    ]_vars

\* One claimer has answered 'no_leads_found' while the other is claiming the
\* only entry of the hopper.
C2_Witness ==
  /\ Len(hopper) = 1
  /\ dialer["d1"].pc = "locked"
  /\ dialer["d2"].pc = "idle" /\ dialer["d2"].result = "no_leads_found"

\* ---------------------------------------------------------------------- C3
\* the placed calls of phone p whose outcome has not been delivered yet
Outstanding(p) == {i \in 1..Len(calls) : calls[i].phone = p /\ calls[i].deliv = 0}

\* C3: under any interleaving of concurrent cadence-engine invocations and
\* outcome deliveries, a contact never has two placed calls outstanding at once.
C3_OneCallOutstanding == \A p \in Phones : Cardinality(Outstanding(p)) <= 1

\* ---------------------------------------------------------------------- C4
TerminalStatuses == {"COMPLETED_SUCCESS", "COMPLETED_EXHAUSTED"}

\* C4: once a stored contact record has status COMPLETED_SUCCESS or
\* COMPLETED_EXHAUSTED, no later operation changes its status.
C4_TerminalNeverChanges ==
  [][\A p \in Phones :
       (docs[p] # <<>> /\ docs[p][1].status \in TerminalStatuses)
         => (docs'[p] # <<>> /\ docs'[p][1].status = docs[p][1].status)]_vars

\* ---------------------------------------------------------------------- C5
ActiveHasNextCall(st) == st.status = "ACTIVE" => st.nextCallTimestamp # NoNum

\* every outcome category named by either rule table or by the handoff list,
\* and one that none of them names
AllDispositions ==
  DOMAIN SegmentRules \cup DOMAIN FlatRules \cup handoffDispositions \cup {"CUSTOMER_HUNG_UP"}

EventWith(p, disp) == [token |-> TempToken(now, p), phone |-> p, disposition |-> disp, ended |-> now]

\* C5: every record the decision step produces (from an absent prior record or
\* from the stored one, for every outcome category, in either webhook and in the
\* queue-origin branch) and every record in the contact state store satisfies
\* status = ACTIVE => nextCallTimestamp is set.
C5_ActiveImpliesNextCall ==
  \A p \in Phones :
    /\ docs[p] # <<>> => ActiveHasNextCall(docs[p][1])
    /\ \A disp \in AllDispositions, prior \in {<<>>, docs[p]} :
         /\ ActiveHasNextCall(DecideCadence(prior, EventWith(p, disp), now))
         /\ ActiveHasNextCall(DecideFlat(prior, EventWith(p, disp), now))
         /\ \A prio \in Priorities :
              ActiveHasNextCall(DecideInitial([id |-> 1, phone_number |-> p, hopper_priority |-> prio],
                                              EventWith(p, disp), now))

\* The webhook has stored an ACTIVE record for the outcome of a cadence call.
C5_Witness ==
  \E i \in 1..Len(calls) :
    /\ calls[i].deliv > 0
    /\ docs[calls[i].phone] # <<>>
    /\ docs[calls[i].phone][1].status = "ACTIVE"
    /\ docs[calls[i].phone][1].lastCallSid = calls[i].token
    /\ docs[calls[i].phone][1].nextCallTimestamp > now

\* ---------------------------------------------------------------------- C6
PriorCount(p) == IF docs[p] = <<>> THEN 0 ELSE OrZero(docs[p][1].attemptCount)

StoredBy(i) ==
  /\ docs[calls[i].phone] # <<>>
  /\ docs[calls[i].phone][1].lastCallSid = calls[i].token

DecideAt(i, t) ==
  LET prior == getContactState(calls[i].phone)
  IN IF variant = "flat" THEN DecideFlat(prior, EventOf(i), t)
     ELSE IF isInitialCall(calls[i].token)
     THEN DecideInitial(LeadRow(calls[i].token[3]), EventOf(i), t)
     ELSE DecideCadence(prior, EventOf(i), t)

\* C7: two applications of the decision step to the same prior record and the
\* same outcome event yield the same record, whenever each of them runs (here:
\* now and one second later).
C7_DecisionIgnoresClock ==
  \A i \in 1..Len(calls) : DecideAt(i, now) = DecideAt(i, now + 1)

\* ---------------------------------------------------------------------- C8
AllowedQueueChanges ==
  {<<"PENDING", "CLAIMED">>, <<"CLAIMED", "COMPLETED">>, <<"CLAIMED", "ERROR">>}

\* C8: every status change of a hopper row made by the dialer or the webhook
\* is PENDING -> CLAIMED, CLAIMED -> COMPLETED or CLAIMED -> ERROR; a row never
\* returns to PENDING and a COMPLETED row never changes again.
C8_QueueStatusChanges ==
  [][\A h \in 1..Len(hopper) :
       /\ h <= Len(hopper')
       /\ QueueStatus(hopper'[h].status) # QueueStatus(hopper[h].status)
            => <<QueueStatus(hopper[h].status), QueueStatus(hopper'[h].status)>> \in AllowedQueueChanges
       /\ hopper[h].status = "INITIAL_CALL_COMPLETED" => hopper'[h].status = hopper[h].status
    ]_vars

\* One row failed, another was completed and its outcome was delivered again.
C8_Witness ==
  \E h \in 1..Len(hopper), g \in 1..Len(hopper), i \in 1..Len(calls) :
    /\ QueueStatus(hopper[g].status) = "ERROR"
    /\ hopper[h].status = "INITIAL_CALL_COMPLETED"
    /\ calls[i].token = hopper[h].initial_call_provider_sid
    /\ calls[i].deliv = 2

C10_CompletedRowHasRecord ==
  \A h \in 1..Len(hopper) :
    hopper[h].status = "INITIAL_CALL_COMPLETED"
      => getContactState(leads[hopper[h].lead_id].phone_number) # <<>>

\* ---------------------------------------------------------------- queryDue
Members(seq) == {seq[i] : i \in 1..Len(seq)}

\* the query times examined: the current time and every stored next call time
AsOfs ==
  ({now} \cup {docs[p][1].nextCallTimestamp : p \in {q \in Phones : docs[q] # <<>>}}) \ {NoNum}

\* the answers of the two implementations of queryDue
DueAnswers(failing, t) ==
  {queryContactsDueForCall(Loadable(docs, failing), index, t),
   queryContactsDueUnsorted(Loadable(docs, failing), index, t)}

\* C11: whatever the documents, the list and the query time, queryDue returns
\* no record whose status is other than ACTIVE or PENDING and no record whose
\* nextCallTimestamp is missing or later than the query time.
C11_QueryDueOnlyActiveAndDue ==
  \A failing \in SUBSET Phones, t \in AsOfs :
    \A r \in DueAnswers(failing, t) :
      \A i \in 1..Len(r) :
        /\ r[i].status \in {"ACTIVE", "PENDING"}
        /\ r[i].nextCallTimestamp # NoNum
        /\ r[i].nextCallTimestamp <= t

\* The engine holds a batch of due contacts while the list also names a
\* contact that must not be returned (inactive, or active and not yet due).
C11_Witness ==
  /\ sched["s1"].pc = "loop"
  /\ sched["s1"].sid = NoTok
  /\ \E p \in Members(index) :
       /\ docs[p] # <<>>
       /\ \/ ~isActive(docs[p][1].status)
          \/ /\ docs[p][1].nextCallTimestamp # NoNum
             /\ docs[p][1].nextCallTimestamp > now
       /\ \A k \in 1..Len(sched["s1"].due) : sched["s1"].due[k].phoneNumber # p

\* an active, due document behind a list member
DueMember(p, failing, t) ==
  /\ p \in Members(index)
  /\ p \notin failing
  /\ docs[p] # <<>>
  /\ docs[p][1].status \in {"ACTIVE", "PENDING"}
  /\ docs[p][1].nextCallTimestamp # NoNum
  /\ docs[p][1].nextCallTimestamp <= t

\* C12: every list member with an active, due document is returned by
\* queryDue, however many pages the list has and whichever other members have
\* no document or a document that cannot be fetched.
C12_QueryDueComplete ==
  \A failing \in SUBSET Phones, t \in AsOfs :
    \A p \in Phones :
      DueMember(p, failing, t) =>
        \A r \in DueAnswers(failing, t) : \E i \in 1..Len(r) : r[i] = docs[p][1]

\* The list spans more than one page, its first page names only a contact
\* without document, and the engine holds the due contact of a later page.
C12_Witness ==
  /\ Len(index) > PageSize
  /\ \A k \in 1..PageSize : docs[index[k]] = <<>>
  /\ \E k \in (PageSize + 1)..Len(index) :
       /\ DueMember(index[k], {}, now)
       /\ sched["s1"].pc = "loop"
       /\ sched["s1"].due # <<>>
       /\ sched["s1"].due[1].phoneNumber = index[k]

\* a may stand before b: smaller priority first, no priority last, equal
\* priorities by earlier next call time
InOrder(a, b) ==
  \/ a.hopperPriority # NoNum /\ b.hopperPriority = NoNum
  \/ a.hopperPriority # NoNum /\ b.hopperPriority # NoNum /\ a.hopperPriority < b.hopperPriority
  \/ a.hopperPriority = b.hopperPriority /\ a.nextCallTimestamp <= b.nextCallTimestamp

IsOrdered(r) == \A i \in 1..Len(r), j \in 1..Len(r) : i < j => InOrder(r[i], r[j])

\* C13: the answer of queryDue is ordered by priority ascending, records
\* without priority last, equal priorities by nextCallTimestamp ascending (the
\* engine works through its batch in the order of the answer it received).
C13_QueryDueSorted ==
  \A failing \in SUBSET Phones, t \in AsOfs :
    \A r \in DueAnswers(failing, t) : IsOrdered(r)

\* the part of C13 that the sorting implementation meets
QueryDueSortedWhereSorted ==
  \A failing \in SUBSET Phones, t \in AsOfs :
    IsOrdered(queryContactsDueForCall(Loadable(docs, failing), index, t))

\* ------------------------------------------------------ store membership
\* an addOrUpdate for phone p that wrote the document and completed its list
\* operation, issued by the engine or by the webhook
UpsertOk(p) ==
  \/ \E s \in Scheds :
       /\ SchedMark(s, "ok") \/ SchedExhaust(s, "ok") \/ SchedPlaceFail(s, "ok")
       /\ Head(sched[s].due).phoneNumber = p
  \/ \E i \in 1..MaxCalls, gres \in Outcomes :
       /\ WebhookCadence(i, gres, "ok") \/ WebhookFlat(i, gres, "ok")
       /\ calls[i].phone = p

\* C14: after a successful upsert for a phone number, the phone number is in
\* the active list exactly when the stored status is ACTIVE or PENDING, for
\* every write of the engine and of the webhook.
C14_ListedIffActiveAfterUpsert ==
  [][\A p \in Phones :
       UpsertOk(p) => (p \in Members(index') <=> isActive(docs'[p][1].status))]_vars

\* the part of C14 that holds: the writes of the webhook and the engine's
\* writes that carry a status
UpsertWithStatusOk(p) ==
  \/ \E s \in Scheds :
       /\ SchedExhaust(s, "ok") \/ SchedPlaceFail(s, "ok")
       /\ Head(sched[s].due).phoneNumber = p
  \/ \E i \in 1..MaxCalls, gres \in Outcomes :
       /\ WebhookCadence(i, gres, "ok") \/ WebhookFlat(i, gres, "ok")
       /\ calls[i].phone = p

ListedIffActiveAfterUpsertWithStatus ==
  [][\A p \in Phones :
       UpsertWithStatusOk(p) => (p \in Members(index') <=> isActive(docs'[p][1].status))]_vars

\* ------------------------------------------------------ engine, per contact
\* C15: whenever the engine goes on to place the call for a due contact, the
\* contact's document has just been stored with the fresh currentCallSid; a
\* failed store means no placement for that contact in this invocation.
C15_TokenStoredBeforePlacement ==
  [][\A s \in Scheds :
       (sched[s].pc = "loop" /\ sched'[s].pc = "place") =>
         LET p == Head(sched[s].due).phoneNumber
         IN /\ docs'[p] # <<>>
            /\ docs'[p][1].currentCallSid = sched'[s].sid
            /\ sched'[s].sid # NoTok]_vars

\* the part of C15 that holds: a store invocation that throws skips the contact
ThrownMarkSkipsContact ==
  [][\A s \in Scheds : SchedMark(s, "throw") => sched'[s].pc # "place" /\ UNCHANGED <<docs, index, calls>>]_vars

ContactStep(s) ==
  \E res \in WriteResults : SchedExhaust(s, res) \/ SchedMark(s, res) \/ SchedPlaceFail(s, res)

\* C17: whatever fails while the engine handles one due contact (the marking
\* write, the placement, the revert write, the final-status write), the
\* invocation either stays on that contact or moves on to the next one with
\* all remaining due contacts still to be processed; only a failed due query
\* ends an invocation without any contact processed.
C17_FailureKeepsRestOfBatch ==
  [][\A s \in Scheds :
       ContactStep(s) =>
         \/ sched'[s].pc = "place" /\ sched'[s].due = sched[s].due
         \/ /\ sched'[s].due = Tail(sched[s].due)
            /\ sched'[s].pc = IF Tail(sched[s].due) = <<>> THEN "idle" ELSE "loop"]_vars

\* The invocation is placing the call for the second contact of its batch
\* after the placement for the first one failed and its revert write failed
\* too (the first contact still carries its token, no call exists).
C17_Witness ==
  \E p \in Phones, q \in Phones :
    /\ p # q
    /\ calls = <<>>
    /\ docs[p] # <<>>
    /\ docs[p][1].currentCallSid # NoTok
    /\ sched["s1"].pc = "place"
    /\ Len(sched["s1"].due) = 1
    /\ sched["s1"].due[1].phoneNumber = q

HopperRowsOf(l) == {h \in 1..Len(hopper) : hopper[h].lead_id = l}

\* C19: when no intake request is in flight, every stored lead has exactly
\* one hopper row and no two leads have the same phone number, whatever the
\* interleaving of requests and whichever statement failed.
C19_OneRowPerLeadOneLeadPerPhone ==
  (\A r \in Requests : intake[r].pc = "idle") =>
    /\ \A l \in 1..Len(leads) : Cardinality(HopperRowsOf(l)) = 1
    /\ \A l1 \in 1..Len(leads), l2 \in 1..Len(leads) :
         leads[l1].phone_number = leads[l2].phone_number => l1 = l2

\* the part of C19 that holds: never two hopper rows for one lead
AtMostOneRowPerLead == \A l \in 1..Len(leads) : Cardinality(HopperRowsOf(l)) <= 1

\* ------------------------------------------------------------ claim order
\* row a is not behind row b: earlier entry time, or the same entry time and
\* a priority that is not larger, a missing priority counting as largest
NotBehind(a, b) ==
  \/ a.hopper_entry_timestamp < b.hopper_entry_timestamp
  \/ /\ a.hopper_entry_timestamp = b.hopper_entry_timestamp
     /\ \/ b.priority = NoNum
        \/ a.priority # NoNum /\ a.priority <= b.priority

NonCallable == {"COMPLETED_SUCCESS", "COMPLETED_EXHAUSTED", "PAUSED", "ERROR"}

\* the number of NO_ANSWER outcomes after which the NO_ANSWER policy is
\* exhausted: attempt 3 reaches maxAttempts in the flat table, attempt 4 has
\* no segment in the segment table
NoAnswerLimit(v) == IF v = "flat" THEN 3 ELSE 4

\* every retry call so far ended NO_ANSWER and has had its outcome reconciled
OnlyNoAnswerReconciled ==
  /\ \A i \in 1..Len(calls) : calls[i].disposition = "NO_ANSWER" /\ calls[i].deliv = 1
  /\ \A s \in Scheds : sched[s].pc = "idle"

\* C21: a contact whose every call ends with the same retryable outcome is
\* dialed finitely often: in the favourable run (store operations succeed,
\* each outcome delivered once) the contact has a non-callable status once the
\* outcomes reconciled for it (the initial one and those of the retry calls)
\* have reached the number at which the NO_ANSWER policy is exhausted.
C21_RepeatedOutcomeExhausts ==
  (OnlyNoAnswerReconciled /\ 1 + Len(calls) >= NoAnswerLimit(variant))
    => docs["p1"] # <<>> /\ docs["p1"][1].status \in NonCallable

\* what keeps the contact callable: the record stored for the outcome of a
\* retry call counts one attempt, however many calls went before
RetryOutcomeCountsFromOne ==
  [][\A i \in 1..MaxCalls :
       (WebhookCadence(i, "ok", "ok") \/ WebhookFlat(i, "ok", "ok")) /\ calls[i].deliv = 0
         => docs'[calls[i].phone][1].attemptCount = 1]_vars

\* --------------------------------------------------------------------- C22
\* the attemptCount the decision step must store for a fetched record
\* (<<>> when none was fetched); a record that carries no count counts as 0
CountAfter(fetched) ==
  IF fetched = <<>> THEN 1
  ELSE IF fetched[1].attemptCount = NoNum THEN 1
  ELSE fetched[1].attemptCount + 1

\* C22: for every prior record and every outcome category the decided record
\* has attemptCount = the prior record's attemptCount + 1; when the webhook
\* holds no prior record (the queue-origin branch, which builds a bootstrap
\* record, or the cadence-origin branch when the record is absent or could
\* not be fetched) the decided record has attemptCount = 1.
C22_AttemptCountIsPriorPlusOne ==
  [][\A wres \in {"ok", "nolist"} :
       /\ \A gres \in Outcomes :
            (WebhookCadence(1, gres, wres) \/ WebhookFlat(1, gres, wres))
              => docs'["p1"][1].attemptCount = CountAfter(Fetched("p1", gres))
       /\ \A hres \in Outcomes :
            WebhookInitial(1, hres, "ok", wres) => docs'["p1"][1].attemptCount = 1]_vars

\* The outcome of a cadence call was decided on a prior record of two
\* attempts and the stored record counts three.
C22_Witness ==
  /\ calls[1].deliv = 1
  /\ ~isInitialCall(calls[1].token)
  /\ docs["p1"] # <<>>
  /\ docs["p1"][1].lastCallSid = calls[1].token
  /\ docs["p1"][1].attemptCount = 3

\* --------------------------------------------------------------------- C23
\* The record the deployed webhook would store for call i if its rule were
\* the table entry for `key` (DEFAULT when the table has no such entry).
DecidedUnder(i, gres, key) ==
  LET ev == EventOf(i)
      fetched == Fetched(ev.phone, gres)
  IN IF variant = "flat"
     THEN ApplyFlat(Bump(fetched, ev), ev.disposition, RuleFor(FlatRules, key), now)
     ELSE LET rule == RuleFor(SegmentRules, key)
          IN IF isInitialCall(ev.token)
             THEN ApplyRules(BootstrapRecord(LeadRow(ev.token[3]), ev, rule), ev.disposition, rule, now)
             ELSE ApplyRules(CadenceRecord(fetched, ev, rule), ev.disposition, rule, now)

\* the webhook holds no prior record for the contact of call i
NoPriorRecord(i, gres) ==
  \/ variant = "segment" /\ isInitialCall(calls[i].token)
  \/ Fetched(calls[i].phone, gres) = <<>>

\* a webhook invocation for call i that stores its decision
Decides(i, gres, wres) ==
  \/ WebhookInitial(i, gres, "ok", wres)
  \/ WebhookCadence(i, gres, wres)
  \/ WebhookFlat(i, gres, wres)

C24_BootstrapNoAnswer ==
  [][\A gres \in Outcomes, wres \in {"ok", "nolist"} :
       (Decides(1, gres, wres) /\ NoPriorRecord(1, gres) /\ calls[1].disposition = "NO_ANSWER")
         => /\ docs'["p1"][1].attemptCount = 1
            /\ docs'["p1"][1].status = "ACTIVE"
            /\ docs'["p1"][1].nextCallTimestamp = calls[1].ended + 20 * 60]_vars

\* What the segment webhook does in that case: the delay is added to the
\* instant the webhook runs.
BootstrapNoAnswerFromClock ==
  [][\A gres \in Outcomes, wres \in {"ok", "nolist"} :
       (Decides(1, gres, wres) /\ variant = "segment" /\ NoPriorRecord(1, gres)
          /\ calls[1].disposition = "NO_ANSWER")
         => /\ docs'["p1"][1].attemptCount = 1
            /\ docs'["p1"][1].status = "ACTIVE"
            /\ docs'["p1"][1].nextCallTimestamp = now + 20 * 60]_vars

\* --------------------------------------------------------------------- C25
\* the rule the deployed webhook resolves for the outcome of call i
ResolvedRule(i, gres) ==
  IF variant = "flat"
  THEN LET fetched == Fetched(calls[i].phone, gres)
       IN RuleFor(FlatRules, effectiveRuleKey(Bump(fetched, EventOf(i)), fetched, EventOf(i)))
  ELSE RuleFor(SegmentRules, calls[i].disposition)

\* the resolved rule marks the outcome as immediately terminal success
MarksTerminalSuccess(i, gres) ==
  ResolvedRule(i, gres).finalStatusOnExhaustion = "COMPLETED_SUCCESS"

TerminalSuccessKeepsFlatPriority ==
  [][\A gres \in Outcomes, wres \in {"ok", "nolist"} :
       (Decides(1, gres, wres) /\ MarksTerminalSuccess(1, gres))
         => /\ docs'["p1"][1].status = "COMPLETED_SUCCESS"
            /\ docs'["p1"][1].nextCallTimestamp = NoNum
            /\ docs'["p1"][1].hopperPriority =
                 IF variant = "flat" /\ Fetched("p1", gres) # <<>>
                 THEN Fetched("p1", gres)[1].hopperPriority ELSE NoNum]_vars

\* --------------------------------------------------------------------- C26
\* the hand-off set as configured by default
HandOffCategories == {"CALL_COMPLETED_HUMAN_HANDOFF", "CALL_TRANSFERRED"}

\* C26: for every attemptCount and every prior status (and with no prior
\* record), an outcome whose category is in the configured hand-off set yields
\* a decided record with status = PAUSED and nextCallTimestamp cleared.
C26_HandOffPauses ==
  [][\A gres \in Outcomes, wres \in {"ok", "nolist"} :
       (Decides(1, gres, wres) /\ calls[1].disposition \in HandOffCategories)
         => /\ docs'["p1"][1].status = "PAUSED"
            /\ docs'["p1"][1].nextCallTimestamp = NoNum]_vars

\* A transferred call was decided on a record of three earlier attempts that
\* was ACTIVE and is now stored PAUSED without a next call time.
C26_Witness ==
  /\ calls[1].deliv = 1
  /\ calls[1].disposition = "CALL_TRANSFERRED"
  /\ docs["p1"] # <<>>
  /\ docs["p1"][1].lastCallSid = calls[1].token
  /\ docs["p1"][1].attemptCount = 4
  /\ docs["p1"][1].status = "PAUSED"
  /\ docs["p1"][1].nextCallTimestamp = NoNum

\* --------------------------------------------------------------------- C27
\* the attemptCount the segment webhook decides on for call i
NewCount(i, gres) ==
  IF isInitialCall(calls[i].token) THEN 1 ELSE CountAfter(Fetched(calls[i].phone, gres))

\* index of the delay entry of the resolved rule for the new attemptCount
MatchedSegment(i, gres) == FindSegment(ResolvedRule(i, gres).segments, NewCount(i, gres))

\* the segment webhook decides call i in the attempt-based branch and the
\* rule has a delay entry for the new attemptCount
InAttemptBranch(i, gres) ==
  /\ variant = "segment"
  /\ ~MarksTerminalSuccess(i, gres)
  /\ calls[i].disposition \notin HandOffCategories
  /\ MatchedSegment(i, gres) # 0

\* the priority the webhook had in hand before the rules were applied: the
\* lead's in the queue-origin branch, the fetched record's otherwise
CarriedPriority(i, gres) ==
  IF isInitialCall(calls[i].token) THEN leads[calls[i].token[3]].hopper_priority
  ELSE IF Fetched(calls[i].phone, gres) = <<>> THEN NoNum
  ELSE Fetched(calls[i].phone, gres)[1].hopperPriority

\* C27 as stated: in the attempt-based branch, when the policy has a delay
\* entry for the new attemptCount, the decided record has status = ACTIVE,
\* nextCallTimestamp = now + that entry's delay, and priority equal to the
\* entry's override if it has one and otherwise the policy's default priority,
\* whatever priority the prior record carried.
C27_PriorityFromPolicy ==
  [][\A gres \in Outcomes, wres \in {"ok", "nolist"} :
       (Decides(1, gres, wres) /\ InAttemptBranch(1, gres))
         => LET rule == ResolvedRule(1, gres)
                seg == rule.segments[MatchedSegment(1, gres)]
            IN /\ docs'["p1"][1].status = "ACTIVE"
               /\ docs'["p1"][1].nextCallTimestamp = AddDelay(now, seg.delay)
               /\ docs'["p1"][1].hopperPriority =
                    IF seg.hopperPriorityOverride # NoNum THEN seg.hopperPriorityOverride
                    ELSE rule.defaultHopperPriority]_vars

\* What the segment webhook does: status and nextCallTimestamp as stated; the
\* priority is the entry's override if it has one; otherwise, in the
\* cadence-origin branch, the priority the fetched record carries and the
\* policy's default only when it carries none, and in the queue-origin branch
\* the policy's default and the lead's priority only when the policy has none.
PriorityKeptOrDefaulted ==
  [][\A gres \in Outcomes, wres \in {"ok", "nolist"} :
       (Decides(1, gres, wres) /\ InAttemptBranch(1, gres))
         => LET rule == ResolvedRule(1, gres)
                seg == rule.segments[MatchedSegment(1, gres)]
                carried == CarriedPriority(1, gres)
            IN /\ docs'["p1"][1].status = "ACTIVE"
               /\ docs'["p1"][1].nextCallTimestamp = AddDelay(now, seg.delay)
               /\ docs'["p1"][1].hopperPriority =
                    IF seg.hopperPriorityOverride # NoNum THEN seg.hopperPriorityOverride
                    ELSE IF isInitialCall(calls[1].token)
                    THEN (IF rule.defaultHopperPriority # NoNum THEN rule.defaultHopperPriority
                          ELSE carried)
                    ELSE (IF carried # NoNum THEN carried ELSE rule.defaultHopperPriority)]_vars

\* --------------------------------------------------------------------- C28
\* the number of attempts the rule has delay entries for: the highest
\* attemptCount a segment covers, or the length of the flat delay list
ConfiguredAttempts(rule) ==
  IF rule.maxAttempts # NoNum THEN Len(rule.attempts)
  ELSE CHOOSE n \in {rule.segments[k].callCountMax : k \in 1..Len(rule.segments)} :
         \A k \in 1..Len(rule.segments) : rule.segments[k].callCountMax <= n

\* the attemptCount the deployed webhook decides on for call i
DecidedCount(i, gres) ==
  IF variant = "segment" /\ isInitialCall(calls[i].token) THEN 1
  ELSE CountAfter(Fetched(calls[i].phone, gres))

\* C28: when the new attemptCount exceeds the attempts configured in the
\* resolved policy (and the outcome is neither terminal success nor a
\* hand-off), the decided record has status = the policy's
\* finalStatusOnExhaustion and nextCallTimestamp cleared; e.g. a record with
\* attemptCount 2 under a policy with exactly 2 delay entries and final status
\* COMPLETED_EXHAUSTED (BUSY in the shipped tables), given another such
\* outcome, yields attemptCount 3, COMPLETED_EXHAUSTED, no next call.
C28_ExhaustionIsFinal ==
  [][\A gres \in Outcomes, wres \in {"ok", "nolist"} :
       (/\ Decides(1, gres, wres)
        /\ ~MarksTerminalSuccess(1, gres)
        /\ calls[1].disposition \notin HandOffCategories
        /\ DecidedCount(1, gres) > ConfiguredAttempts(ResolvedRule(1, gres)))
         => /\ docs'["p1"][1].attemptCount = DecidedCount(1, gres)
            /\ docs'["p1"][1].status = ResolvedRule(1, gres).finalStatusOnExhaustion
            /\ docs'["p1"][1].nextCallTimestamp = NoNum]_vars

\* A BUSY outcome (two delay entries) was decided on a record of two
\* attempts: the stored record counts three, is COMPLETED_EXHAUSTED and has
\* no next call time.
C28_Witness ==
  /\ calls[1].deliv = 1
  /\ calls[1].disposition = "BUSY"
  /\ docs["p1"] # <<>>
  /\ docs["p1"][1].lastCallSid = calls[1].token
  /\ docs["p1"][1].attemptCount = 3
  /\ docs["p1"][1].status = "COMPLETED_EXHAUSTED"
  /\ docs["p1"][1].nextCallTimestamp = NoNum

\* --------------------------------------------------------------------- C29
\* the rule has a delay entry for attemptCount n: a segment that covers n, or,
\* in the flat table, an element at index n of the delay list
HasDelayEntry(rule, n) ==
  IF rule.maxAttempts # NoNum THEN n < Len(rule.attempts)
  ELSE \E k \in 1..Len(rule.segments) :
         rule.segments[k].callCountMin <= n /\ n <= rule.segments[k].callCountMax

\* the outcome of call i is decided by the attempt-based lookup
AttemptBased(i) ==
  /\ calls[i].disposition \notin HandOffCategories
  /\ ~(variant = "segment" /\ calls[i].disposition = "APPOINTMENT_SCHEDULED_AI")

\* C29: the decision step is total and fails closed.  For every prior
\* attemptCount, every outcome category and every policy whose delay list is
\* shorter than its nominal maximum attempts or whose segments leave gaps below
\* it, the step stores a well-formed record (the new attemptCount, a decided
\* status, a next call time whenever the status is ACTIVE), and an attempt
\* index with no delay entry yields the policy's finalStatusOnExhaustion with
\* the next call time cleared, as reaching the maximum does.
C29_FailsClosed ==
  [][\A rule \in DefectiveFlatRules \cup DefectiveSegmentRules :
       DecideWithRule(1, rule)
         => LET rec == docs'["p1"][1]
                n == DecidedCount(1, "ok")
            IN /\ rec.attemptCount = n
               /\ rec.status \in StoredStatuses \ {"PENDING"}
               /\ (rec.status = "ACTIVE") = (rec.nextCallTimestamp # NoNum)
               /\ (AttemptBased(1) /\ ~HasDelayEntry(rule, n))
                    => /\ rec.status = rule.finalStatusOnExhaustion
                       /\ rec.nextCallTimestamp = NoNum]_vars

\* The flat webhook decided a NO_ANSWER outcome as the second attempt, below
\* the nominal maximum of the policy, found no delay entry at index 2 and
\* stored the policy's final status ERROR.
C29_Witness ==
  /\ variant = "flat"
  /\ calls[1].deliv = 1
  /\ calls[1].disposition = "NO_ANSWER"
  /\ docs["p1"] # <<>>
  /\ docs["p1"][1].lastCallSid = calls[1].token
  /\ docs["p1"][1].attemptCount = 2
  /\ docs["p1"][1].attemptCount < NominalMax
  /\ docs["p1"][1].status = "ERROR"
  /\ docs["p1"][1].nextCallTimestamp = NoNum

\* --------------------------------------------------------------------- C30
\* C30: after every decision, in the queue-origin and in the cadence-origin
\* branch (and in the flat webhook), the stored record has lastCallDisposition
\* equal to the event's outcome category, lastAttemptTimestamp equal to the
\* event's end timestamp, and currentCallSid cleared.
C30_OutcomeCopiedForward ==
  [][\A gres \in Outcomes, wres \in {"ok", "nolist"} :
       Decides(1, gres, wres)
         => /\ docs'["p1"][1].lastCallDisposition = calls[1].disposition
            /\ docs'["p1"][1].lastAttemptTimestamp = calls[1].ended
            /\ docs'["p1"][1].currentCallSid = NoTok]_vars

\* The outcome of a call that ended before the webhook ran was decided on a
\* stored record: the record carries the category and the end timestamp of
\* the event, not the time of the decision, and no current call token.
C30_Witness ==
  /\ calls[1].deliv = 1
  /\ calls[1].ended < now
  /\ docs["p1"] # <<>>
  /\ docs["p1"][1].lastCallSid = calls[1].token
  /\ docs["p1"][1].attemptCount = 2
  /\ docs["p1"][1].lastCallDisposition = calls[1].disposition
  /\ docs["p1"][1].lastCallDisposition = "BUSY"
  /\ docs["p1"][1].lastAttemptTimestamp = calls[1].ended
  /\ docs["p1"][1].currentCallSid = NoTok

\* --------------------------------------------------------------------- C31
\* the rule the engine re-derives for the contact at the head of the batch
EngineRule(s) == RuleFor(getCadenceRules(variant), RuleKeyOf(Head(sched[s].due)))

\* invocation s is at a due contact whose attemptCount is at least the
\* maximum attempts of its re-derived rule
AtExhaustedContact(s) ==
  /\ sched[s].pc = "loop"
  /\ EngineRule(s).maxAttempts # NoNum
  /\ Head(sched[s].due).attemptCount # NoNum
  /\ Head(sched[s].due).attemptCount >= EngineRule(s).maxAttempts

\* the record the final-status write leaves for phone p under rule `rule`
ExhaustedRecord(p, rule) == [BlankState(p) EXCEPT !.status = rule.finalStatusOnExhaustion]

DueAtItsTime(rec, d, idx) ==
  /\ rec.nextCallTimestamp # NoNum
  /\ \E k \in 1..Len(queryContactsDueForCall(d, idx, rec.nextCallTimestamp)) :
       queryContactsDueForCall(d, idx, rec.nextCallTimestamp)[k].phoneNumber = rec.phoneNumber

\* the engine, given the stored record as a due contact, re-derives the rule
\* the webhook decided it under and goes on to dial
EngineDials(rec, rule) ==
  /\ RuleFor(getCadenceRules(variant), RuleKeyOf(DueView(rec))) = rule
  /\ ~Exhausted(variant, DueView(rec))

\* C32: the engine's re-derivation of the policy agrees with the webhook's
\* decision.  Every record the webhook has just stored as ACTIVE with a next
\* call time is, when due, resolved by the engine to the same policy and
\* dialed rather than declared exhausted; every record the webhook stored with
\* another status is not returned to the engine at any time.
C32_EngineAgreesWithDecision ==
  [][\A gres \in Outcomes :
       Decides(1, gres, "ok")
         => LET rec == docs'["p1"][1]
            IN IF rec.status = "ACTIVE"
               THEN DueAtItsTime(rec, docs', index') /\ EngineDials(rec, ResolvedRule(1, gres))
               ELSE queryContactsDueForCall(docs', index', now + 10 * 86400) = <<>>]_vars

\* What holds: the two agree for the segment webhook and table; with the flat
\* table every record stored ACTIVE is returned when due, and every other
\* record is never returned.
SegmentEngineAgrees ==
  [][\A gres \in Outcomes :
       Decides(1, gres, "ok")
         => LET rec == docs'["p1"][1]
            IN IF rec.status = "ACTIVE"
               THEN /\ DueAtItsTime(rec, docs', index')
                    /\ variant = "segment" => EngineDials(rec, ResolvedRule(1, gres))
               ELSE queryContactsDueForCall(docs', index', now + 10 * 86400) = <<>>]_vars

\* --------------------------------------------------------------------- C33
\* the fields of a record that no write of the engine is meant to touch
KeptFields(rec) ==
  <<rec.attemptCount, rec.lastCallDisposition, rec.lastAttemptTimestamp,
    rec.hopperPriority, rec.leadId>>

\* a write of invocation s for the contact at the head of its batch that the
\* store carries out
EngineWrite(s) ==
  \E res \in {"ok", "nolist"} : SchedMark(s, res) \/ SchedPlaceFail(s, res) \/ SchedExhaust(s, res)

\* C33: each write the engine makes for a contact (marking it in flight,
\* reverting to ERROR after a placement failure, moving it to the exhaustion
\* status) changes only currentCallSid, status and nextCallTimestamp of the
\* stored record: attemptCount, lastCallDisposition, lastAttemptTimestamp,
\* hopperPriority and leadId are the same after the write as before it, and
\* when marking in flight the status stays ACTIVE or PENDING.
C33_EngineWritesKeepRecord ==
  [][\A s \in Scheds :
       (EngineWrite(s) /\ docs[Head(sched[s].due).phoneNumber] # <<>>)
         => LET p == Head(sched[s].due).phoneNumber
            IN /\ KeptFields(docs'[p][1]) = KeptFields(docs[p][1])
               /\ (\E res \in {"ok", "nolist"} : SchedMark(s, res))
                    => isActive(docs'[p][1].status)]_vars

\* What the writes do: the stored document becomes the partial state the
\* engine sent, every field it does not name is gone.
EngineWritesReplaceRecord ==
  [][\A s \in Scheds :
       EngineWrite(s)
         => LET p == Head(sched[s].due).phoneNumber
            IN /\ KeptFields(docs'[p][1]) = KeptFields(BlankState(p))
               /\ docs'[p][1].nextCallTimestamp = NoNum
               /\ (\E res \in {"ok", "nolist"} : SchedMark(s, res))
                    => docs'[p][1].status = NoStr]_vars

\* --------------------------------------------------------------------- C34
\* no phone number stands at two positions of the answer
OncePerContact(r) ==
  \A i \in 1..Len(r), j \in 1..Len(r) : r[i].phoneNumber = r[j].phoneNumber => i = j

\* C34: the answer of queryDue, and so the batch an engine invocation works
\* through, contains each phone number at most once, even when the active
\* list names the same phone number several times and on several pages.
C34_QueryDueOncePerContact ==
  /\ \A failing \in SUBSET Phones, t \in AsOfs :
       \A r \in DueAnswers(failing, t) : OncePerContact(r)
  /\ \A s \in Scheds : OncePerContact(sched[s].due)

\* The list names a due contact on its first page and again on a later page,
\* and the engine holds a batch in which the contact stands once.
C34_Witness ==
  /\ Len(index) > PageSize
  /\ \E i \in 1..PageSize, j \in (PageSize + 1)..Len(index) :
       /\ index[i] = index[j]
       /\ DueMember(index[i], {}, now)
       /\ sched["s1"].pc = "loop"
       /\ Cardinality({k \in 1..Len(sched["s1"].due) :
                         sched["s1"].due[k].phoneNumber = index[i]}) = 1

\* --------------------------------------------------------------------- C35
\* list member p is dangling: it has no document, its document cannot be
\* fetched, or its document has a status that is not callable
Dangling(p, failing) ==
  \/ docs[p] = <<>>
  \/ p \in failing
  \/ ~isActive(docs[p][1].status)

\* the list without its dangling members
WithoutDangling(failing) == SelectSeq(index, LAMBDA p : ~Dangling(p, failing))

\* C35: queryDue tolerates dangling list members.  A member with no document,
\* with a document in a non-callable status, or whose document fetch fails is
\* skipped; the query still answers, and its answer is the one it gives for
\* the list without the dangling members with every fetch succeeding, so all
\* other members are evaluated as if the dangling ones were not there.
C35_DanglingMembersSkipped ==
  \A failing \in SUBSET Phones, t \in AsOfs :
    /\ queryContactsDueForCall(Loadable(docs, failing), index, t)
         = queryContactsDueForCall(docs, WithoutDangling(failing), t)
    /\ queryContactsDueUnsorted(Loadable(docs, failing), index, t)
         = queryContactsDueUnsorted(docs, WithoutDangling(failing), t)

\* The list names a dangling member (no document, or a document in a
\* non-callable status) ahead of a due contact, and the engine holds the due
\* contact in its batch.
C35_Witness ==
  \E i \in 1..Len(index), j \in 1..Len(index) :
    /\ i < j
    /\ Dangling(index[i], {})
    /\ DueMember(index[j], {}, now)
    /\ sched["s1"].pc = "loop"
    /\ \E k \in 1..Len(sched["s1"].due) : sched["s1"].due[k].phoneNumber = index[j]

\* --------------------------------------------------------------------- C36
\* One webhook invocation followed through its steps.  The record of the
\* call it handles carries the invocation's position (pc), the contactState
\* it holds, the downstream invocations it has made with their results
\* (trace), the status it answered, and the deployment's environment.
Environments == [SEGMENT_WRITE_KEY : BOOLEAN, TWILIO_WORKSPACE_SID : BOOLEAN]

InitNotify ==
  /\ intake = [r \in Requests |-> IdleIntake]
  /\ variant \in {"flat", "segment"}
  /\ now = DecideClock
  /\ ticks = 0
  /\ dialer = [d \in Dialers |-> IdleDialer]
  /\ sched = [s \in Scheds |-> IdleSched]
  /\ leads = <<[phone_number |-> "p1", hopper_priority |-> 10]>>
  /\ hopper = <<[lead_id |-> 1, hopper_entry_timestamp |-> 0, priority |-> 10,
                 status |-> "PROCESSING_INITIAL_CALL", lockedBy |-> "",
                 initial_call_provider_sid |-> InitialToken(1, 1, 0), claims |-> 1]>>
  /\ \E prior \in PriorRecords("p1") : docs = [p \in Phones |-> IF p = "p1" THEN prior ELSE <<>>]
  /\ index = IF docs["p1"] # <<>> /\ isActive(docs["p1"][1].status) THEN <<"p1">> ELSE <<>>
  /\ \E tok \in {InitialToken(1, 1, 0), TempToken(0, "p1")}, disp \in OutcomeCategories,
        env \in Environments :
       calls = <<[token |-> tok, phone |-> "p1", disposition |-> disp, ended |-> DecideClock,
                  deliv |-> 0, rejected |-> 0, pc |-> "received", contactState |-> <<>>,
                  trace |-> <<>>, status |-> NoNum, env |-> env]>>

\* Faulty variant of StatusAfterNotifications: a failed notification fails the invocation.
StatusFailsWithNotification(trace) ==
  IF \E k \in 1..Len(trace) : trace[k].op # "addOrUpdate" /\ trace[k].res = "fail"
  THEN 500 ELSE 200

\* Step 7: response.setStatusCode(200), whatever the catch blocks have logged
StatusAfterNotifications(trace) == 200

\* The handler from validation to the addOrUpdate invocation: the branch
\* decides contactState and invokes manage_contact_state in a try/catch.  In
\* the initial branch a lead query without a row (or one that throws) ends the
\* invocation with 500 before anything is decided.
OutcomeReconcile(i, hres, lres, gres, wres) ==
  /\ Undelivered(i)
  /\ calls[i].pc = "received"
  /\ HasRequiredFields(EventOf(i))
  /\ LET initial == variant = "segment" /\ isInitialCall(calls[i].token)
         st == IF variant = "flat" THEN DecideFlat(Fetched(calls[i].phone, gres), EventOf(i), now)
               ELSE IF initial THEN DecideInitial(LeadRow(calls[i].token[3]), EventOf(i), now)
               ELSE DecideCadence(Fetched(calls[i].phone, gres), EventOf(i), now)
     IN /\ hopper' = IF initial THEN HopperAfterOutcome(hopper, calls[i].token[2], hres) ELSE hopper
        /\ IF initial /\ lres # "ok"
           THEN /\ calls' = [Delivered(i) EXCEPT ![i].pc = "done", ![i].status = 500]
                /\ UNCHANGED <<docs, index>>
           ELSE /\ docs' = DocsAfter(docs, st, wres)
                /\ index' = ListAfter(index, st, wres)
                /\ calls' = [Delivered(i) EXCEPT
                               ![i].pc = "add_event", ![i].contactState = <<st>>,
                               ![i].trace = Append(@, [op |-> "addOrUpdate", res |-> wres])]
  /\ UNCHANGED <<intake, variant, now, ticks, leads, dialer, sched>>

\* if (context.SEGMENT_WRITE_KEY && addEventFunction) { try { invoke add_event } catch { log } }
OutcomeLogEvent(i, res) ==
  /\ i \in 1..Len(calls)
  /\ calls[i].pc = "add_event"
  /\ calls' = [calls EXCEPT
                 ![i].pc = "create_task",
                 ![i].trace = IF calls[i].env.SEGMENT_WRITE_KEY
                              THEN Append(@, [op |-> "add_event", res |-> res]) ELSE @]
  /\ UNCHANGED <<intake, variant, now, ticks, leads, hopper, dialer, docs, index, sched>>

\* handoffDispositions.includes(event.disposition) ||
\*   contactState.status === 'PAUSED' && handoffDispositions.includes(contactState.lastCallDisposition || '')
NeedsHandoffTask(ev, st) ==
  \/ ev.disposition \in handoffDispositions
  \/ st.status = "PAUSED" /\ st.lastCallDisposition \in handoffDispositions

\* Step 6: if TaskRouter is configured and the outcome is a handoff,
\* try { invoke create_task } catch { log }
OutcomeCreateTask(i, res) ==
  /\ i \in 1..Len(calls)
  /\ calls[i].pc = "create_task"
  /\ calls' = [calls EXCEPT
                 ![i].pc = "respond",
                 ![i].trace = IF /\ calls[i].env.TWILIO_WORKSPACE_SID
                                 /\ NeedsHandoffTask(EventOf(i), calls[i].contactState[1])
                              THEN Append(@, [op |-> "create_task", res |-> res]) ELSE @]
  /\ UNCHANGED <<intake, variant, now, ticks, leads, hopper, dialer, docs, index, sched>>

\* Step 7: respond to the webhook
OutcomeRespond(i) ==
  /\ i \in 1..Len(calls)
  /\ calls[i].pc = "respond"
  /\ calls' = [calls EXCEPT ![i].pc = "done", ![i].status = StatusAfterNotifications(calls[i].trace)]
  /\ UNCHANGED <<intake, variant, now, ticks, leads, hopper, dialer, docs, index, sched>>

NextNotify ==
  \/ \E hres \in Outcomes, lres \in Outcomes, gres \in Outcomes, wres \in WriteResults :
       OutcomeReconcile(1, hres, lres, gres, wres)
  \/ \E res \in Outcomes : OutcomeLogEvent(1, res)
  \/ \E res \in Outcomes : OutcomeCreateTask(1, res)
  \/ OutcomeRespond(1)

SpecNotify == InitNotify /\ [][NextNotify]_vars

\* the invocation handling call i has attempted notification op
Attempted(i, op) == \E k \in 1..Len(calls[i].trace) : calls[i].trace[k].op = op

\* the invocation handling call i has attempted notification op and it failed
Failed(i, op) ==
  \E k \in 1..Len(calls[i].trace) : calls[i].trace[k].op = op /\ calls[i].trace[k].res = "fail"

\* C36: the webhook persists the decided record before it attempts the
\* analytics event and the hand-off task: whenever either has been attempted,
\* the addOrUpdate invocation is the first one the handler made, and the
\* stored record is the decided one when that write went through.  A failure
\* of either notification changes neither the stored record nor the answer:
\* the notification steps leave the store as it is, and an invocation that has
\* decided a record answers 200.
C36_NotificationsAreBestEffort ==
  /\ [](\A i \in 1..Len(calls) :
          /\ (Attempted(i, "add_event") \/ Attempted(i, "create_task"))
               => /\ calls[i].trace[1].op = "addOrUpdate"
                  /\ calls[i].trace[1].res \in {"ok", "nolist"}
                       => docs[calls[i].phone] = calls[i].contactState
          /\ (calls[i].pc = "done" /\ calls[i].contactState # <<>>) => calls[i].status = 200)
  /\ [][\A res \in Outcomes :
          (OutcomeLogEvent(1, res) \/ OutcomeCreateTask(1, res)) => UNCHANGED <<docs, index, hopper>>]_vars

\* Both notifications were attempted and failed; the decided record is stored
\* and the invocation answered 200.
C36_Witness ==
  /\ calls[1].pc = "done"
  /\ Failed(1, "add_event")
  /\ Failed(1, "create_task")
  /\ calls[1].trace[1].res = "ok"
  /\ docs[calls[1].phone] = calls[1].contactState
  /\ calls[1].status = 200

\* --------------------------------------------------------------------- C37
\* C37: in the cadence branch, when the 'get' invocation fails for a reason
\* other than the record being absent (it throws or answers an error status)
\* while a record is stored, the webhook leaves the stored record and the
\* list as they are and does not answer success.
C37_FetchFailureKeepsRecord ==
  [][\A hres \in Outcomes, lres \in Outcomes, wres \in WriteResults :
       ( /\ OutcomeReconcile(1, hres, lres, "fail", wres)
         /\ variant = "segment"
         /\ ~isInitialCall(calls[1].token)
         /\ docs[calls[1].phone] # <<>> )
         => /\ UNCHANGED <<docs, index>>
            /\ calls'[1].pc = "done"
            /\ calls'[1].status # 200]_vars

\* What the code does instead: a failed fetch is treated as "no record", so
\* the webhook stores a fresh record that counts one attempt and goes on to
\* the notifications and the 200 answer.
FetchFailureStartsAfresh ==
  [][\A hres \in Outcomes, lres \in Outcomes, wres \in {"ok", "nolist"} :
       ( /\ OutcomeReconcile(1, hres, lres, "fail", wres)
         /\ ~(variant = "segment" /\ isInitialCall(calls[1].token)) )
         => /\ docs'[calls[1].phone][1].attemptCount = 1
            /\ calls'[1].pc = "add_event"]_vars

\* --------------------------------------------------------------------- C38
\* Tracking ids as the text the code builds and parses: a sequence of
\* characters.
Digits == <<"0", "1", "2", "3", "4", "5", "6", "7", "8", "9">>

IsDigit(c) == \E d \in 1..10 : Digits[d] = c

\* `${n}` for a non-negative integer
RECURSIVE ToText(_)
ToText(n) == IF n < 10 THEN <<Digits[n + 1]>> ELSE ToText(n \div 10) \o <<Digits[(n % 10) + 1]>>

\* parseInt(text, 10) for a run of digits
RECURSIVE parseInt(_)
parseInt(text) ==
  IF text = <<>> THEN 0
  ELSE parseInt(SubSeq(text, 1, Len(text) - 1)) * 10
         + (CHOOSE d \in 0..9 : Digits[d + 1] = text[Len(text)])

InitialPrefix == <<"i", "n", "i", "t", "i", "a", "l", "_", "H">>

TempPrefix == <<"T", "E", "M", "P", "_">>

\* `initial_H${hopper_id}_L${lead_id}_${Date.now()}`
trackingId(hopper_id, lead_id, t) ==
  InitialPrefix \o ToText(hopper_id) \o <<"_", "L">> \o ToText(lead_id) \o <<"_">> \o ToText(t)

\* `TEMP_${Date.now()}_${contact.phoneNumber}`
newCurrentCallSid(t, phoneNumber) == TempPrefix \o ToText(t) \o <<"_">> \o phoneNumber

\* the literal lit stands in text s at position k
LiteralAt(s, k, lit) == k + Len(lit) - 1 <= Len(s) /\ SubSeq(s, k, k + Len(lit) - 1) = lit

\* event.twilio_call_sid && event.twilio_call_sid.startsWith('initial_H')
startsWithInitial(s) == s # <<>> /\ LiteralAt(s, 1, InitialPrefix)

\* Faulty variant of DigitRun: \d instead of \d+.
OneDigit(s, k) == IF k <= Len(s) /\ IsDigit(s[k]) THEN 1 ELSE 0

\* \d+ at position k: the length of the longest run of digits that starts
\* there (0: no digit at k, the group does not match)
DigitRun(s, k) ==
  CHOOSE n \in 0..(Len(s) - k + 1) :
    /\ \A j \in k..(k + n - 1) : IsDigit(s[j])
    /\ k + n > Len(s) \/ ~IsDigit(s[k + n])

\* twilio_call_sid.match(/^initial_H(\d+)_L(\d+)_(\d+)$/): <<>> for null,
\* otherwise the whole match and the three groups
trackingIdParts(s) ==
  IF ~LiteralAt(s, 1, InitialPrefix) THEN <<>>
  ELSE LET k1 == Len(InitialPrefix) + 1
           k2 == k1 + DigitRun(s, k1)
       IN IF k2 = k1 \/ ~LiteralAt(s, k2, <<"_", "L">>) THEN <<>>
          ELSE LET k3 == k2 + 2
                   k4 == k3 + DigitRun(s, k3)
               IN IF k4 = k3 \/ ~LiteralAt(s, k4, <<"_">>) THEN <<>>
                  ELSE LET k5 == k4 + 1
                           k6 == k5 + DigitRun(s, k5)
                       IN IF k6 = k5 \/ k6 # Len(s) + 1 THEN <<>>
                          ELSE <<s, SubSeq(s, k1, k2 - 1), SubSeq(s, k3, k4 - 1),
                                 SubSeq(s, k5, Len(s))>>

\* ids and clock readings with one, two, three and more digits
HopperIds == {1, 9, 10, 42, 105}

LeadIds == {1, 7, 10, 33, 120}

TokenClocks == {0, 999, 1700000000}

\* phone numbers as text, in E.164 form
PhoneTexts == {<<"+", "1", "5", "5", "5", "0", "1">>, <<"+", "4", "4", "2", "0">>}

\* One dialer holds a claimed hopper row with its lead and one engine
\* invocation holds a due contact, both about to build their tracking id.
InitToken ==
  /\ intake = [r \in Requests |-> IdleIntake]
  /\ variant = "segment"
  /\ now \in TokenClocks
  /\ ticks = 0
  /\ leads = <<>>
  /\ hopper = <<>>
  /\ docs = [p \in Phones |-> <<>>]
  /\ index = <<>>
  /\ calls = <<>>
  /\ \E h \in HopperIds, l \in LeadIds :
       dialer = [d \in Dialers |-> [pc |-> IF d = "d1" THEN "place" ELSE "idle", result |-> "none",
                                    row |-> [hopper_id |-> h, lead_id |-> l]]]
  /\ \E phone \in PhoneTexts :
       sched = [s \in Scheds |-> [pc |-> IF s = "s1" THEN "place" ELSE "idle",
                                  due |-> <<[phoneNumber |-> phone]>>, sid |-> NoTok]]

\* initial dialer: builds the tracking id and passes it as CallSid
TokenDialerPlace(d) ==
  /\ dialer[d].pc = "place"
  /\ calls' = Append(calls, [token |-> trackingId(dialer[d].row.hopper_id, dialer[d].row.lead_id, now),
                             by |-> d, origin |-> "unread", hopperId |-> NoNum, leadIdDb |-> NoNum])
  /\ dialer' = [dialer EXCEPT ![d].pc = "idle"]
  /\ UNCHANGED <<intake, variant, now, ticks, leads, hopper, docs, index, sched>>

\* cadence engine: builds the temporary call sid and passes it as CallSid
TokenSchedPlace(s) ==
  /\ sched[s].pc = "place"
  /\ calls' = Append(calls, [token |-> newCurrentCallSid(now, Head(sched[s].due).phoneNumber),
                             by |-> s, origin |-> "unread", hopperId |-> NoNum, leadIdDb |-> NoNum])
  /\ sched' = [sched EXCEPT ![s].pc = "idle"]
  /\ UNCHANGED <<intake, variant, now, ticks, leads, hopper, dialer, docs, index>>

\* webhook: classifies the outcome by its twilio_call_sid and, for an initial
\* call, parses hopper id and lead id out of it (400 when it does not match)
TokenClassify(i) ==
  /\ i \in 1..Len(calls)
  /\ calls[i].origin = "unread"
  /\ LET sid == calls[i].token
         parts == trackingIdParts(sid)
     IN calls' = [calls EXCEPT ![i] =
                    IF ~startsWithInitial(sid) THEN [@ EXCEPT !.origin = "cadence"]
                    ELSE IF parts = <<>> THEN [@ EXCEPT !.origin = "invalid"]
                    ELSE [@ EXCEPT !.origin = "initial", !.hopperId = parseInt(parts[2]),
                                   !.leadIdDb = parseInt(parts[3])]]
  /\ UNCHANGED <<intake, variant, now, ticks, leads, hopper, dialer, docs, index, sched>>

NextToken ==
  \/ TokenDialerPlace("d1")
  \/ TokenSchedPlace("s1")
  \/ \E i \in 1..2 : TokenClassify(i)
  \/ TickSecond

SpecToken == InitToken /\ [][NextToken]_vars

\* C38: tracking tokens round-trip and classify correctly.  Every token the
\* initial dialer builds for hopper entry h and lead l is classified by the
\* webhook as an initial (queue-origin) call and parsed back to exactly h and
\* l; every token the engine builds for a cadence call is classified as a
\* cadence call.
C38_TokensRoundTrip ==
  \A i \in 1..Len(calls) :
    calls[i].origin # "unread"
      => IF calls[i].by \in Dialers
         THEN /\ calls[i].origin = "initial"
              /\ calls[i].hopperId = dialer[calls[i].by].row.hopper_id
              /\ calls[i].leadIdDb = dialer[calls[i].by].row.lead_id
         ELSE calls[i].origin = "cadence"

\* The webhook has read both a dialer token with a three-digit hopper id and
\* a different lead id, and an engine token.
C38_Witness ==
  \E i \in 1..Len(calls), j \in 1..Len(calls) :
    /\ calls[i].by = "d1"
    /\ calls[i].origin = "initial"
    /\ calls[i].hopperId = 105
    /\ calls[i].leadIdDb = 7
    /\ calls[j].by = "s1"
    /\ calls[j].origin = "cadence"

\* --------------------------------------------------------------------- C39
\* The work queue with two leads ingested and waiting, the dialers and the
\* webhook.  A dialer invocation suffers at most one database fault (the
\* update in its catch block succeeds); the webhook's hopper update may fail.
InitClaim ==
  /\ intake = [r \in Requests |-> IdleIntake]
  /\ variant = "segment"
  /\ now = 0
  /\ ticks = 0
  /\ \E prio \in Priorities :
       /\ leads = [l \in 1..MaxIngests |->
                     [phone_number |-> IF l = 1 THEN "p1" ELSE "p2", hopper_priority |-> prio]]
       /\ hopper = [l \in 1..MaxIngests |->
                      [lead_id |-> l, hopper_entry_timestamp |-> 0, priority |-> prio,
                       status |-> "PENDING_INITIAL_CALL", lockedBy |-> "",
                       initial_call_provider_sid |-> NoTok, claims |-> 0]]
  /\ dialer = [d \in Dialers |-> IdleDialer]
  /\ docs = [p \in Phones |-> <<>>]
  /\ index = <<>>
  /\ sched = [s \in Scheds |-> IdleSched]
  /\ calls = <<>>

\* what an invocation of dialer d does once its claim query has locked a row
DialerRuns(d) ==
  \/ DialerUpdate(d)
  \/ DialerQueryFail(d)
  \/ \E disp \in InitialDispositions : DialerPlaceOk(d, disp)
  \/ \E upd \in Outcomes : DialerPlaceFail(d, upd, "ok")
  \/ DialerDbError(d, "ok")

\* the provider delivers the outcome event of initial call i
OutcomeArrives(i) ==
  \E hres \in Outcomes, lres \in Outcomes, wres \in WriteResults : WebhookInitial(i, hres, lres, wres)

NextClaim ==
  \/ \E d \in Dialers : DialerSelect(d)
  \/ \E d \in Dialers : DialerNoLeads(d)
  \/ \E d \in Dialers : DialerRuns(d)
  \/ \E i \in 1..MaxCalls : OutcomeArrives(i)

\* Every started dialer invocation runs to its end (call placement returns),
\* and the outcome event of every accepted call is delivered.
SpecClaimFair ==
  /\ InitClaim
  /\ [][NextClaim]_vars
  /\ \A d \in Dialers : WF_vars(DialerRuns(d))
  /\ \A i \in 1..MaxCalls : WF_vars(OutcomeArrives(i))

\* C39: every claimed queue entry eventually reaches INITIAL_CALL_COMPLETED
\* or an ERROR status; no entry stays PROCESSING_INITIAL_CALL forever.
C39_ClaimedEntryIsFinished ==
  \A h \in 1..MaxIngests :
    (hopper[h].status = "PROCESSING_INITIAL_CALL")
      ~> (hopper[h].status \in {"INITIAL_CALL_COMPLETED"} \cup ErrorStatuses)

\* What holds instead: a claimed entry whose dialer invocation has ended
\* without a call being accepted has an ERROR status (one database fault
\* inside the dialer is absorbed by the catch block), and an entry is still
\* claimed after the dialer has ended only while it has an accepted call.
ClaimedHasRunningDialerOrCall ==
  \A h \in 1..MaxIngests :
    hopper[h].status = "PROCESSING_INITIAL_CALL"
      => \/ \E d \in Dialers : dialer[d].pc = "claimed" /\ dialer[d].row = h
         \/ \E i \in 1..Len(calls) : isInitialCall(calls[i].token) /\ calls[i].token[2] = h

\* --------------------------------------------------------------------- C40
\* the stored record of phone p carries a call token
InFlight(p) == docs[p] # <<>> /\ docs[p][1].currentCallSid # NoTok

====
